---- MODULE Spec2Model ----
(***************************************************************************)
(* Batch Video Composition Engine (Pimboto/VideoLab, apps/api).            *)
(*                                                                         *)
(* SpecPlan    job planning: ProcessingService._build_all_jobs and         *)
(*             ProcessingService._build_unique_jobs.                       *)
(* SpecSelect  batch_core.select_jobs_diverse on a pool of candidates.     *)
(* SpecRender  VideoRenderService.process_video: target duration and the   *)
(*             frame loop (SpecRenderLive: the same under weak fairness).  *)
(* SpecJob     VideoRenderService.process_video from probe to return:      *)
(*             handles, temp and output file, audio muxing, exceptions.    *)
(* SpecWrap    EmojiTextRenderer._hard_wrap_text.                          *)
(* SpecBatch   ProcessingService.process_batch_videos and                  *)
(*             process_single_video: job loop and progress reports.        *)
(* SpecCache   EmojiTextRenderer.render_text and its render cache.         *)
(* SpecResize  _resize_cover, _resize_contain and the stretch resize.      *)
(* SpecOverlay overlay_text_on_frame: where the caption is blended.        *)
(* SpecTasks   two background tasks alive at once: temp files, renderers.  *)
(* SpecAccept  POST /process-batch: announced total and planned jobs.      *)
(* SpecNames   output file names of the jobs of a batch run.               *)
(*                                                                         *)
(* Durations are whole seconds and a frame rate is the fraction <<num,     *)
(* den>> that ffprobe reports, so that products and quotients are exact.   *)
(*                                                                         *)
(* Lists are Python lists: positions are 0-based in the code and the       *)
(* model keeps the code's 0-based indices (b, cap_idx, aud_idx, idx),      *)
(* adding 1 only where a TLA+ sequence is subscripted.                     *)
(***************************************************************************)
EXTENDS Naturals, Integers, Sequences, FiniteSets, TLC

(* ------------------------------ bounds -------------------------------- *)
MaxVideos == 3
MaxAudios == 3
MaxRows == 3
MaxWant == 7
\* candidate pools of the diversity selector
MaxPoolVideos == 3
MaxPoolAudios == 2
MaxPoolRows == 2
MaxCandidates == 6
MaxTarget == 7
\* render jobs
MaxVideoDur == 2
MaxAudioDur == 2
MaxFixed == 2
MaxSegments == 3
MaxSourceFrames == 2

\* Python None in the audio slot of a job
None == [kind |-> "none", stem |-> 0]

Max(a, b) == IF a >= b THEN a ELSE b
Min(a, b) == IF a <= b THEN a ELSE b

(* ------------------------------ state --------------------------------- *)
VARIABLES
    vids,              \* list of video keys
    auds,              \* list of audio keys
    text_combinations, \* caption combinations as received
    want,              \* unique_amount
    ppc,               \* position of the planner
    jobs,              \* the list being built / returned
    N,                 \* _build_unique_jobs: number of jobs to emit
    t,                 \* _build_unique_jobs: loop variable
    picks_per_video    \* _build_unique_jobs: picks so far, per video

VARIABLES
    cands,             \* select_jobs_diverse: jobs, the candidate list
    target_n,          \* select_jobs_diverse: target_n
    spc,               \* position of the selector
    rnd,               \* the shuffled list, as positions of cands
    selected,          \* picks so far, as positions of cands
    used,              \* ids of the picked jobs
    counts,            \* the four Counters
    last_bases,        \* deque(maxlen=2)
    last_audios,       \* deque(maxlen=recent_window)
    last_captions,     \* deque(maxlen=recent_window)
    turn               \* iterations of the for loop started so far

VARIABLES
    duration_policy,   \* config.duration_policy
    fixed_seconds,     \* config.fixed_seconds: << >> is None, <<x>> a number
    video_duration,    \* probe_video: duration
    fps,               \* probe_video: frame rate <<num, den>>
    audio_file,        \* audio_path, whether the file exists, what ffprobe says
    text_segments,     \* number of caption segments of the job
    source_frames,     \* frames cap.read() delivers before it reports no frame
    rpc,               \* position in process_video
    audio_duration,    \* audio_duration
    target_duration,   \* target_duration
    max_frames,        \* max_frames
    frame_idx,         \* frame_idx
    shown              \* per frame written, the caption index overlaid (-1: none)

VARIABLES
    canvas_size,       \* config.canvas_size, <<width, height>>
    out_size,          \* <<out_width, out_height>>
    source_audio,      \* the source video carries an embedded audio track
    audio_path,        \* "none": None, "missing": no such file, "file"
    mix_audio,         \* config.mix_audio
    jpc,               \* position in process_video
    cap,               \* the cv2.VideoCapture: "unopened", "open", "released"
    writer,            \* the cv2.VideoWriter: "unopened", "open", "released"
    temp_video,        \* the file at temp_video: "absent" or what it holds
    output,            \* the file at output_path: "absent" or what it holds
    final_audio,       \* audio track of the muxed clip: "none", "music", "mix"
    mux_attempted,     \* _add_audio_to_video was called
    failed_at,         \* step where the first exception was raised, or "none"
    result             \* "running", or what process_video did: "true",
                       \* "false", "raised"

VARIABLES
    words,             \* text.split(): the words, each given by its width
    max_width,         \* max_width
    space_width,       \* width the font gives a space between two words
    wpc,               \* position in _hard_wrap_text
    word_idx,          \* words consumed by the for loop
    current,           \* current: the words of the line being filled
    lines              \* lines

VARIABLES
    run_kind,          \* "batch": process_batch_videos, "single":
                       \* process_single_video
    unique_mode,       \* unique_mode
    unique_amount,     \* unique_amount, 0 for None
    has_audio,         \* single run: an audio_path is given
    bpc,               \* position in the run
    loop_i,            \* jobs the for loop has been through
    attempts,          \* per job entered, its position in the plan
    output_files,      \* output_files, by the position of the job
    ok_jobs,           \* jobs that rendered and uploaded
    job_outcomes,      \* what each job that ended came to, in order
    reports            \* calls of job_service.update_job, in order

VARIABLES
    requests,          \* the (text, max_width) pairs the caller asks for
    heap,              \* the numpy arrays alive, by identity: what each holds
    render_cache,      \* self._render_cache: cache_key -> array
    returned,          \* the array the last render_text call gave the caller
    last_call          \* the last call: request, cache hit?, bitmap returned

VARIABLES
    frame_size,        \* <<width, height>> of the frame cap.read() gave
    canvas,            \* <<out_width, out_height>>
    fit_mode,          \* config.fit_mode
    scaled,            \* <<new_width, new_height>> after the aspect-preserving
                       \* resize, before the crop or the padding
    written,           \* size of the frame handed to writer.write
    zpc                \* "fresh": frame read, "written", "raised"

VARIABLES
    frame_shape,       \* <<frame_width, frame_height>>
    text_shape,        \* <<text_width, text_height>> of text_img as passed in
    position,          \* position
    margin_pct,        \* margin_pct, a fraction <<numerator, denominator>>
    blend,             \* where the caption is blended: at <<x, y>>, size
                       \* <<text_width, text_height>> after any scaling
    opc                \* "call", "blended", "skipped"

VARIABLES
    tpc,               \* per background task: "idle", "started", "job",
                       \* "writer", "renderer", "frames", "mux", "exit"
    temp_dir,          \* per task: its TemporaryDirectory, 0 when it has none
    temp_output,       \* per task: name of the output file of its current job
    jobs_left,         \* per task: render jobs still to run (1 for a single run)
    temp_files,        \* per task: paths its current render job has written
    renderer           \* per task: identity of the EmojiTextRenderer (and of
                       \* its _render_cache) of its current job, 0 when none

VARIABLES
    api,               \* which /process-batch route takes the request:
                       \* "current" (routers/processing.py) or "archive"
    request,           \* the batch request and what its folders hold
    apc,               \* "request", "queued", "done"
    response,          \* what the route answers
    queued,            \* positional arguments of the queued background task
    planned            \* <<number of jobs>> the background run plans

VARIABLES
    pair,              \* two jobs (vpath_s3, apath_s3, idx) of one batch run
    row_text,          \* first segment of each caption combination, by idx
    filename,          \* the output file name of each of the two jobs
    fpc                \* "jobs", "named"

planVars == <<vids, auds, text_combinations, want, ppc, jobs, N, t, picks_per_video>>
selVars == <<cands, target_n, spc, rnd, selected, used, counts, last_bases,
             last_audios, last_captions, turn>>
renVars == <<duration_policy, fixed_seconds, video_duration, fps, audio_file,
             text_segments, source_frames, rpc, audio_duration, target_duration, max_frames,
             frame_idx, shown>>
jobVars == <<canvas_size, out_size, source_audio, audio_path, mix_audio, jpc,
             cap, writer, temp_video, output, final_audio, mux_attempted,
             failed_at, result>>
wrapVars == <<words, max_width, space_width, wpc, word_idx, current, lines>>
batchVars == <<run_kind, unique_mode, unique_amount, has_audio, bpc, loop_i,
               attempts, output_files, ok_jobs, job_outcomes, reports>>
cacheVars == <<requests, heap, render_cache, returned, last_call>>
resizeVars == <<frame_size, canvas, fit_mode, scaled, written, zpc>>
overlayVars == <<frame_shape, text_shape, position, margin_pct, blend, opc>>
taskVars == <<tpc, temp_dir, temp_output, jobs_left, temp_files, renderer>>
acceptVars == <<api, request, apc, response, queued, planned>>
nameVars == <<pair, row_text, filename, fpc>>
auxVars == <<cacheVars, resizeVars, overlayVars, taskVars, acceptVars, nameVars>>
extVars == <<jobVars, wrapVars, batchVars, auxVars>>
vars == <<planVars, selVars, renVars, extVars>>

(* ---------------------------- job planning ---------------------------- *)
\* S3 keys returned by the listing: distinct objects, one per file.
VideoKey(i) == [kind |-> "video", stem |-> i]
AudioKey(i) == [kind |-> "audio", stem |-> i]
\* A caption combination: an ordered list of text segments.
CaptionRow(i) == << [text |-> i, part |-> 1], [text |-> i, part |-> 2] >>

\* process_batch_videos: rows_used = text_combinations if text_combinations else [[]]
RowsUsed(tc) == IF tc # << >> THEN tc ELSE << << >> >>

rows_used == RowsUsed(text_combinations)

\* the job tuple (vpath, apath, segments, idx)
Job(vpath, apath, segments, idx) ==
    [video |-> vpath, audio |-> apath, segments |-> segments, idx |-> idx]

RECURSIVE Flatten(_)
Flatten(ss) == IF ss = << >> THEN << >> ELSE Head(ss) \o Flatten(Tail(ss))

\* inner loop of _build_all_jobs: "if auds: for apath in auds ... else ..."
AudioLoopMutant(vpath, rows, as, r) ==
    IF as # << >>
    THEN [a \in 1..Len(as) |-> Job(vpath, as[Len(as) + 1 - a], rows[r], r - 1)]
    ELSE << Job(vpath, None, rows[r], r - 1) >>

AudioLoop(vpath, rows, as, r) ==
    IF as # << >>
    THEN [a \in 1..Len(as) |-> Job(vpath, as[a], rows[r], r - 1)]
    ELSE << Job(vpath, None, rows[r], r - 1) >>

\* middle loop: "for idx, segments in enumerate(rows_used)"
RowLoop(vpath, rows, as) ==
    Flatten([r \in 1..Len(rows) |-> AudioLoop(vpath, rows, as, r)])

\* outer loop: "for vpath in vids"
BuildAllJobs(vs, as, rows) ==
    Flatten([v \in 1..Len(vs) |-> RowLoop(vs[v], rows, as)])

\* _build_unique_jobs, the values fixed before the loop
UniqueV == Len(vids)
UniqueC == Max(1, Len(rows_used))
UniqueA == IF auds # << >> THEN Len(auds) ELSE 1

TotalPossibleMutant(V, C, A) == V * C

\* total_possible = V * C * A
TotalPossible(V, C, A) == V * C * A

VideoTurnMutant(tt, V) == (tt \div 2) % V

\* b = t % V
VideoTurn(tt, V) == tt % V

CapIdxMutant(b, k, C) == k % C

\* cap_idx = (start_c + k) % C  with start_c = b % C
CapIdx(b, k, C) == ((b % C) + k) % C

AudIdxMutant(b, k, A) == b % A

\* aud_idx = (start_a + k) % A  with start_a = b % A
AudIdx(b, k, A) == ((b % A) + k) % A

RECURSIVE UniqueLoop(_, _, _, _, _, _, _)
\* "for t in range(N)" of _build_unique_jobs, from iteration tt on
UniqueLoop(vs, as, rows, n, tt, ppv, acc) ==
    IF tt >= n THEN acc
    ELSE LET b == VideoTurn(tt, Len(vs))
             k == ppv[b + 1]
             cap_idx == CapIdx(b, k, Max(1, Len(rows)))
             apath == IF as # << >>
                      THEN as[AudIdx(b, k, Len(as)) + 1] ELSE None
         IN UniqueLoop(vs, as, rows, n, tt + 1, [ppv EXCEPT ![b + 1] = k + 1],
                       Append(acc, Job(vs[b + 1], apath, rows[cap_idx + 1],
                                       cap_idx)))

\* _build_unique_jobs(vids, auds, rows_used, want)
BuildUniqueJobs(vs, as, rows, amount) ==
    IF Len(vs) = 0 THEN << >>
    ELSE UniqueLoop(vs, as, rows,
                    Min(amount, TotalPossible(Len(vs), Max(1, Len(rows)),
                                              IF as # << >> THEN Len(as) ELSE 1)),
                    0, [i \in 1..Len(vs) |-> 0], << >>)

\* no render job is running
RenderIdle ==
    /\ duration_policy = "shortest"
    /\ fixed_seconds = << >>
    /\ video_duration = 0
    /\ fps = <<1, 1>>
    /\ audio_file = [given |-> FALSE, exists |-> FALSE, probe |-> 0]
    /\ text_segments = 0
    /\ source_frames = 0
    /\ rpc = "idle"
    /\ audio_duration = 0
    /\ target_duration = 0
    /\ max_frames = 0
    /\ frame_idx = 0
    /\ shown = << >>

\* the selector is not running
SelectIdle ==
    /\ cands = << >>
    /\ target_n = 0
    /\ spc = "idle"
    /\ rnd = << >>
    /\ selected = << >>
    /\ used = {}
    /\ counts = << >>
    /\ last_bases = << >>
    /\ last_audios = << >>
    /\ last_captions = << >>
    /\ turn = 0

\* no job of the render pipeline is running
JobIdle ==
    /\ canvas_size = <<0, 0>>
    /\ out_size = <<0, 0>>
    /\ source_audio = FALSE
    /\ audio_path = "none"
    /\ mix_audio = FALSE
    /\ jpc = "idle"
    /\ cap = "unopened"
    /\ writer = "unopened"
    /\ temp_video = "absent"
    /\ output = "absent"
    /\ final_audio = "none"
    /\ mux_attempted = FALSE
    /\ failed_at = "none"
    /\ result = "running"

\* the word-wrapper is not running
WrapIdle ==
    /\ words = << >>
    /\ max_width = 0
    /\ space_width = 1
    /\ wpc = "idle"
    /\ word_idx = 0
    /\ current = << >>
    /\ lines = << >>

\* no processing run is going on
BatchIdle ==
    /\ run_kind = "batch"
    /\ unique_mode = FALSE
    /\ unique_amount = 0
    /\ has_audio = FALSE
    /\ bpc = "idle"
    /\ loop_i = 0
    /\ attempts = << >>
    /\ output_files = << >>
    /\ ok_jobs = {}
    /\ job_outcomes = << >>
    /\ reports = << >>

\* no renderer instance is in use
CacheIdle ==
    /\ requests = << >>
    /\ heap = << >>
    /\ render_cache = << >>
    /\ returned = 0
    /\ last_call = [request |-> 0, hit |-> FALSE, bitmap |-> << >>]

\* no frame is being resized
ResizeIdle ==
    /\ frame_size = <<1, 1>>
    /\ canvas = <<2, 2>>
    /\ fit_mode = "cover"
    /\ scaled = <<0, 0>>
    /\ written = <<0, 0>>
    /\ zpc = "idle"

\* no caption is being overlaid
OverlayIdle ==
    /\ frame_shape = <<1, 1>>
    /\ text_shape = <<0, 0>>
    /\ position = "center"
    /\ margin_pct = <<0, 1>>
    /\ blend = [at |-> <<0, 0>>, size |-> <<0, 0>>]
    /\ opc = "idle"

\* no background task has been started
TaskIdle ==
    /\ tpc = << >>
    /\ temp_dir = << >>
    /\ temp_output = << >>
    /\ jobs_left = << >>
    /\ temp_files = << >>
    /\ renderer = << >>

\* no batch request has been received
AcceptIdle ==
    /\ api = "current"
    /\ request = << >>
    /\ apc = "idle"
    /\ response = << >>
    /\ queued = << >>
    /\ planned = << >>

\* no output file is being named
NameIdle ==
    /\ pair = << >>
    /\ row_text = << >>
    /\ filename = << >>
    /\ fpc = "idle"

AuxIdle ==
    /\ CacheIdle /\ ResizeIdle /\ OverlayIdle /\ TaskIdle /\ AcceptIdle
    /\ NameIdle

ExtIdle == JobIdle /\ WrapIdle /\ BatchIdle /\ AuxIdle

\* the planner is not running
PlanIdle ==
    /\ vids = << >>
    /\ auds = << >>
    /\ text_combinations = << >>
    /\ want = 1
    /\ ppc = "idle"
    /\ jobs = << >>
    /\ N = 0
    /\ t = 0
    /\ picks_per_video = << >>

InitPlan ==
    /\ \E v \in 0..MaxVideos : vids = [i \in 1..v |-> VideoKey(i)]
    /\ \E a \in 0..MaxAudios : auds = [i \in 1..a |-> AudioKey(i)]
    /\ \E c \in 0..MaxRows : text_combinations = [i \in 1..c |-> CaptionRow(i)]
    /\ want \in 1..MaxWant
    /\ ppc = "start"
    /\ jobs = << >>
    /\ N = 0
    /\ t = 0
    /\ picks_per_video = << >>
    /\ SelectIdle
    /\ RenderIdle
    /\ ExtIdle

\* _build_all_jobs(vids, auds, rows_used)
BuildAll ==
    /\ ppc = "start"
    /\ jobs' = BuildAllJobs(vids, auds, rows_used)
    /\ ppc' = "all_done"
    /\ UNCHANGED <<vids, auds, text_combinations, want, N, t, picks_per_video>>
    /\ UNCHANGED <<selVars, renVars, extVars>>

\* _build_unique_jobs, up to the loop: "if V == 0: return []"
UniqueBegin ==
    /\ ppc = "start"
    /\ IF UniqueV = 0
       THEN /\ ppc' = "unique_done"
            /\ UNCHANGED <<N, picks_per_video>>
       ELSE /\ N' = Min(want, TotalPossible(UniqueV, UniqueC, UniqueA))
            /\ picks_per_video' = [i \in 1..UniqueV |-> 0]
            /\ ppc' = "unique_loop"
    /\ jobs' = << >>
    /\ t' = 0
    /\ UNCHANGED <<vids, auds, text_combinations, want>>
    /\ UNCHANGED <<selVars, renVars, extVars>>

\* one iteration of "for t in range(N)"
UniqueStep ==
    /\ ppc = "unique_loop"
    /\ t < N
    /\ LET b == VideoTurn(t, UniqueV)
           k == picks_per_video[b + 1]
           cap_idx == CapIdx(b, k, UniqueC)
           apath == IF auds # << >> THEN auds[AudIdx(b, k, UniqueA) + 1] ELSE None
           vpath == vids[b + 1]
           segments == rows_used[cap_idx + 1]
       IN /\ picks_per_video' = [picks_per_video EXCEPT ![b + 1] = k + 1]
          /\ jobs' = Append(jobs, Job(vpath, apath, segments, cap_idx))
    /\ t' = t + 1
    /\ UNCHANGED <<vids, auds, text_combinations, want, ppc, N>>
    /\ UNCHANGED <<selVars, renVars, extVars>>

\* "return jobs"
UniqueReturn ==
    /\ ppc = "unique_loop"
    /\ t >= N
    /\ ppc' = "unique_done"
    /\ UNCHANGED <<vids, auds, text_combinations, want, jobs, N, t, picks_per_video>>
    /\ UNCHANGED <<selVars, renVars, extVars>>

NextPlan == BuildAll \/ UniqueBegin \/ UniqueStep \/ UniqueReturn

SpecPlan == InitPlan /\ [][NextPlan]_vars

(* ------------------------- job planning: claims ----------------------- *)
\* 0-based subscripting of a Python list
At(seq, i) == seq[i + 1]

\* C1: the cartesian builder emits exactly V*C*A jobs when A >= 1 and V*C jobs,
\* each with audio None, when A = 0; job p has video p div (C*A), caption
\* combination (p div A) mod C and audio p mod A: video is the outer loop,
\* caption the middle loop and audio the inner loop.
C1_CartesianCountAndOrder ==
    ppc = "all_done" =>
        LET V == Len(vids)
            C == Len(rows_used)
            A == Len(auds)
            Ai == IF A = 0 THEN 1 ELSE A
        IN /\ Len(jobs) = (IF A >= 1 THEN V * C * A ELSE V * C)
           /\ \A p \in 0..(Len(jobs) - 1) :
                /\ At(jobs, p).video = At(vids, p \div (C * Ai))
                /\ At(jobs, p).idx = (p \div Ai) % C
                /\ At(jobs, p).segments = At(rows_used, (p \div Ai) % C)
                /\ At(jobs, p).audio = (IF A = 0 THEN None ELSE At(auds, p % Ai))

C1_Witness ==
    /\ ppc = "all_done"
    /\ Len(vids) = 2 /\ Len(rows_used) = 3 /\ Len(auds) = 2
    /\ Len(jobs) = 12

\* C2: the deterministic-unique builder returns exactly min(want, V*C*A) jobs,
\* with C = max(1, combinations) and A = audios or 1, and the empty list when
\* V = 0.
C2_UniqueLength ==
    ppc = "unique_done" =>
        LET V == Len(vids)
            C == Max(1, Len(rows_used))
            A == IF Len(auds) = 0 THEN 1 ELSE Len(auds)
        IN Len(jobs) = (IF V = 0 THEN 0 ELSE Min(want, V * C * A))

C2_Witness ==
    /\ ppc = "unique_done"
    /\ Len(vids) = 2 /\ Len(auds) = 2 /\ Len(rows_used) = 1
    /\ want > 4
    /\ Len(jobs) = 4

\* number of jobs of the list that use video b (0-based)
VideoCount(js, b) == Cardinality({p \in 0..(Len(js) - 1) : At(js, p).video = At(vids, b)})

\* C3: in the returned list of n jobs every video is used floor(n/V) or
\* ceil(n/V) times.
C3_UniqueBalanced ==
    (ppc = "unique_done" /\ Len(vids) >= 1) =>
        LET V == Len(vids)
            n == Len(jobs)
            lo == n \div V
            hi == (n + V - 1) \div V
        IN \A b \in 0..(V - 1) : VideoCount(jobs, b) \in {lo, hi}

C3_Witness ==
    /\ ppc = "unique_done"
    /\ Len(vids) = 3
    /\ Len(jobs) = 5
    /\ VideoCount(jobs, 0) = 2 /\ VideoCount(jobs, 2) = 1

\* number of jobs before position p that use video b
EarlierPicks(js, p, b) ==
    Cardinality({q \in 0..(p - 1) : At(js, q).video = At(vids, b)})

\* C4: job number p of the deterministic-unique builder is (videos[b],
\* audios[(b mod A + k) mod A] or None without audio, captions[(b mod C + k)
\* mod C], that caption index), with b = p mod V and k the number of earlier
\* jobs of video b; 3 videos, 2 single-segment combinations, no audio and
\* want = 5 give (v1,-,c1,0) (v2,-,c2,1) (v3,-,c1,0) (v1,-,c2,1) (v2,-,c1,0).
C4_UniqueJobFormula ==
    /\ ppc \in {"unique_loop", "unique_done"} =>
        LET V == Len(vids)
            C == Max(1, Len(rows_used))
            A == Len(auds)
        IN \A p \in 0..(Len(jobs) - 1) :
              LET b == p % V
                  k == EarlierPicks(jobs, p, b)
                  c == ((b % C) + k) % C
              IN At(jobs, p) =
                    Job(At(vids, b),
                        IF A = 0 THEN None ELSE At(auds, ((b % A) + k) % A),
                        At(rows_used, c), c)
    /\ (ppc = "unique_done" /\ Len(vids) = 3 /\ Len(text_combinations) = 2
            /\ Len(auds) = 0 /\ want = 5) =>
        /\ [p \in 1..Len(jobs) |-> jobs[p].video.stem] = <<1, 2, 3, 1, 2>>
        /\ [p \in 1..Len(jobs) |-> jobs[p].idx] = <<0, 1, 0, 1, 0>>
        /\ [p \in 1..Len(jobs) |-> jobs[p].audio] = <<None, None, None, None, None>>
        /\ [p \in 1..Len(jobs) |-> jobs[p].segments[1].text] = <<1, 2, 1, 2, 1>>

C4_Witness ==
    /\ ppc = "unique_done"
    /\ Len(vids) = 3 /\ Len(text_combinations) = 2 /\ Len(auds) = 0 /\ want = 5
    /\ Len(jobs) = 5

\* the (video, caption index, audio) triple of a job
Triple(j) == <<j.video, j.idx, j.audio>>

\* C5: the list planned by the deterministic-unique builder contains no
\* repeated (video, caption index, audio index) triple.
C5_NoRepeatedTriple ==
    \A p, q \in 1..Len(jobs) :
        (ppc \in {"unique_loop", "unique_done"} /\ p # q) =>
            Triple(jobs[p]) # Triple(jobs[q])

RECURSIVE Gcd(_, _)
Gcd(a, b) == IF b = 0 THEN a ELSE Gcd(b, a % b)

\* C28: whenever C and A are coprime (no audio, a single audio or a single
\* caption combination in particular) the list planned by the
\* deterministic-unique builder has no two jobs with the same (video,
\* caption index, audio index), for every V and want.
C28_CoprimeNoRepeatedTriple ==
    (ppc \in {"unique_loop", "unique_done"} /\ Gcd(UniqueC, UniqueA) = 1) =>
        \A p, q \in 1..Len(jobs) :
            p # q => Triple(jobs[p]) # Triple(jobs[q])

\* one video, 2 caption combinations, 3 audios: all 6 triples planned
C28_Witness ==
    /\ ppc = "unique_done"
    /\ UniqueV = 1
    /\ UniqueC = 2
    /\ UniqueA = 3
    /\ Len(jobs) = 6

(* ------------------------- diversity selector ------------------------- *)
\* default weights, target mix and parameters of select_jobs_diverse
WeightBase == 6
WeightAudio == 4
WeightCaption == 3
WeightCombo == 1
RepeatBonus == 8
RatioStrength == 12
BaseStrengthTenths == 6
WindowPenalty == 2
RecentWindow == 4
LastBasesLen == 2
TargetMixBasePct == 70
TargetMixCaptionPct == 20
TargetMixAudioPct == 10
\* Scores are kept as integers: every score of one step is multiplied by
\* 1000 * max(1, len(selected)), which leaves their order and ties unchanged.

Range(f) == {f[x] : x \in DOMAIN f}

\* job_tokens: base = stem of the video, audio = stem of the audio or
\* "noaudio" (0), caption = first segment's text or "text" (0)
JobTokens(job) ==
    [base |-> job.video.stem,
     audio |-> IF job.audio # None THEN job.audio.stem ELSE 0,
     caption |-> IF job.segments # << >> THEN job.segments[1].text ELSE 0]

\* collections.Counter: a missing key counts 0
CounterGet(c, k) == IF k \in DOMAIN c THEN c[k] ELSE 0
CounterInc(c, k) ==
    [x \in (DOMAIN c) \cup {k} |-> IF x = k THEN CounterGet(c, k) + 1 ELSE c[x]]

\* deque(maxlen=m).append(x)
DequeAppend(d, x, m) ==
    IF m = 0 THEN d
    ELSE IF Len(d) < m THEN Append(d, x)
    ELSE Append(Tail(d), x)

\* _ratio_penalty, times 1000 * total: strength10 is strength * 10 and
\* targetPct the target ratio in percent
RatioPenalty(total, cnt, targetPct, strength10) ==
    IF total <= 0 THEN 0
    ELSE strength10 * Max(0, 100 * cnt - targetPct * total)

BaseRepeatPenaltyMutant(base, lb) == 0

\* "if base in last_bases: s += weights['repeat_bonus']"
BaseRepeatPenalty(base, lb) == IF base \in Range(lb) THEN RepeatBonus ELSE 0

\* score(job), times 1000 * max(1, total)
Score(job, cnts, lb, la, lc, total) ==
    LET tk == JobTokens(job)
        linear == CounterGet(cnts.base, tk.base) * WeightBase
                  + CounterGet(cnts.audio, tk.audio) * WeightAudio
                  + CounterGet(cnts.caption, tk.caption) * WeightCaption
                  + CounterGet(cnts.combo, job.idx) * WeightCombo
                  + BaseRepeatPenalty(tk.base, lb)
                  + (IF tk.audio \in Range(la) THEN WindowPenalty ELSE 0)
                  + (IF tk.caption \in Range(lc) THEN WindowPenalty ELSE 0)
    IN linear * 1000 * Max(1, total)
       + RatioPenalty(total, CounterGet(cnts.audio, tk.audio),
                      TargetMixAudioPct, RatioStrength * 10)
       + RatioPenalty(total, CounterGet(cnts.caption, tk.caption),
                      TargetMixCaptionPct, RatioStrength * 10)
       + RatioPenalty(total, CounterGet(cnts.base, tk.base),
                      TargetMixBasePct, RatioStrength * BaseStrengthTenths)

\* the score of candidate j in the current state
ScoreNow(j) == Score(cands[j], counts, last_bases, last_audios, last_captions,
                     Len(selected))

\* avail = [j for j in rnd if id(j) not in used]
Avail == SelectSeq(rnd, LAMBDA j : j \notin used)

\* max instead of min: the first job of avail with the greatest score
BestMutant(av) ==
    CHOOSE b \in Range(av) :
        \E sc \in {[i \in 1..Len(av) |-> ScoreNow(av[i])]} :
        \E i \in 1..Len(av) :
            /\ av[i] = b
            /\ \A m \in 1..Len(av) : sc[i] >= sc[m]
            /\ \A m \in 1..(i - 1) : sc[m] # sc[i]

\* min(avail, key=score): the first job of avail with the least score
Best(av) ==
    CHOOSE b \in Range(av) :
        \E sc \in {[i \in 1..Len(av) |-> ScoreNow(av[i])]} :
        \E i \in 1..Len(av) :
            /\ av[i] = b
            /\ \A m \in 1..Len(av) : sc[i] <= sc[m]
            /\ \A m \in 1..(i - 1) : sc[m] # sc[i]

LoopCountMutant(tn, n) == Min(tn, n) - 1

\* range(min(target_n, len(rnd)))
LoopCount(tn, n) == Min(tn, n)

\* every order random.shuffle can leave a list of n jobs in
Shuffles(n) == {[i \in 1..n |-> f[i]] : f \in Permutations(1..n)}

InitSelect ==
    /\ \E v \in 0..MaxPoolVideos, a \in 0..MaxPoolAudios, c \in 0..MaxPoolRows :
          /\ v * Max(1, a) * Max(1, c) <= MaxCandidates
          /\ cands = BuildAllJobs([i \in 1..v |-> VideoKey(i)],
                                  [i \in 1..a |-> AudioKey(i)],
                                  RowsUsed([i \in 1..c |-> CaptionRow(i)]))
    /\ target_n \in 0..MaxTarget
    /\ spc = "start"
    /\ rnd = << >>
    /\ selected = << >>
    /\ used = {}
    /\ counts = << >>
    /\ last_bases = << >>
    /\ last_audios = << >>
    /\ last_captions = << >>
    /\ turn = 0
    /\ PlanIdle
    /\ RenderIdle
    /\ ExtIdle

\* select_jobs_diverse up to the loop: "if not jobs: return []", the shuffle
\* and the empty counters and deques
SelectBegin ==
    /\ spc = "start"
    /\ IF cands = << >>
       THEN /\ spc' = "done"
            /\ UNCHANGED <<rnd, counts>>
       ELSE /\ rnd' \in Shuffles(Len(cands))
            /\ counts' = [base |-> << >>, audio |-> << >>, caption |-> << >>,
                          combo |-> << >>]
            /\ spc' = "loop"
    /\ selected' = << >>
    /\ used' = {}
    /\ last_bases' = << >>
    /\ last_audios' = << >>
    /\ last_captions' = << >>
    /\ turn' = 0
    /\ UNCHANGED <<cands, target_n>>
    /\ UNCHANGED <<planVars, renVars, extVars>>

\* one iteration of "for _ in range(min(target_n, len(rnd)))"
SelectStep ==
    /\ spc = "loop"
    /\ turn < LoopCount(target_n, Len(rnd))
    /\ IF Avail = << >>
       THEN \* "if not avail: break"
            /\ spc' = "done"
            /\ UNCHANGED <<selected, used, counts, last_bases, last_audios,
                           last_captions>>
       ELSE \E best \in {Best(Avail)} : \E tk \in {JobTokens(cands[best])} :
               /\ used' = used \cup {best}
               /\ selected' = Append(selected, best)
               /\ counts' = [base |-> CounterInc(counts.base, tk.base),
                             audio |-> CounterInc(counts.audio, tk.audio),
                             caption |-> CounterInc(counts.caption, tk.caption),
                             combo |-> CounterInc(counts.combo, cands[best].idx)]
               /\ last_bases' = DequeAppend(last_bases, tk.base, LastBasesLen)
               /\ last_audios' = DequeAppend(last_audios, tk.audio, RecentWindow)
               /\ last_captions' = DequeAppend(last_captions, tk.caption, RecentWindow)
               /\ spc' = "loop"
    /\ turn' = turn + 1
    /\ UNCHANGED <<cands, target_n, rnd>>
    /\ UNCHANGED <<planVars, renVars, extVars>>

\* "return selected"
SelectReturn ==
    /\ spc = "loop"
    /\ turn >= LoopCount(target_n, Len(rnd))
    /\ spc' = "done"
    /\ UNCHANGED <<cands, target_n, rnd, selected, used, counts, last_bases,
                   last_audios, last_captions, turn>>
    /\ UNCHANGED <<planVars, renVars, extVars>>

NextSelect == SelectBegin \/ SelectStep \/ SelectReturn

SpecSelect == InitSelect /\ [][NextSelect]_vars

(* ----------------------- diversity selector: claims ------------------- *)
\* C6: select_jobs_diverse returns exactly min(target_n, number of
\* candidates) jobs, whatever order the shuffle produced.
C6_SelectLength ==
    spc = "done" => Len(selected) = Min(target_n, Len(cands))

C6_Witness ==
    /\ spc = "done"
    /\ Len(cands) = 6
    /\ target_n = 4
    /\ Len(selected) = 4

\* the candidates not yet picked when pick number i (1-based) is made
RemainingAt(i) == (1..Len(cands)) \ {selected[m] : m \in 1..(i - 1)}

SyntheticPool ==
    /\ Len(cands) = 6
    /\ Cardinality({cands[j].video : j \in 1..Len(cands)}) = 3
    /\ Cardinality({cands[j].idx : j \in 1..Len(cands)}) = 2
    /\ \A j \in 1..Len(cands) : cands[j].audio = None

\* C7 as stated: on the pool of 3 videos x 2 caption combinations without
\* audio, with the default weights and target mix, two consecutive picks have
\* the same base token only if every candidate remaining at the second pick
\* has that base token, for every shuffle order.
C7_NoConsecutiveBase ==
    SyntheticPool =>
        \A i \in 2..Len(selected) :
            JobTokens(cands[selected[i]]).base = JobTokens(cands[selected[i - 1]]).base
            => \A j \in RemainingAt(i) :
                  JobTokens(cands[j]).base = JobTokens(cands[selected[i - 1]]).base

\* C7 amended: on that pool two consecutive picks have different base tokens,
\* for every shuffle order, except that the fourth pick can repeat the base of
\* the third (the three candidates left then have equal scores and the
\* shuffle order decides).
C7_NoConsecutiveBaseButFourth ==
    SyntheticPool =>
        \A i \in 2..Len(selected) :
            i # 4 =>
                JobTokens(cands[selected[i]]).base
                    # JobTokens(cands[selected[i - 1]]).base

C7_Witness ==
    /\ SyntheticPool
    /\ spc = "done"
    /\ Len(selected) = 6

\* C24: at every step of select_jobs_diverse the job picked has a score,
\* computed from the counts and recency windows as they stand before the
\* pick, no greater than the score of any candidate not yet selected, and a
\* candidate already selected is never picked again.
C24_PicksMinimumOnce ==
    [][Len(selected') = Len(selected) + 1 =>
          \E best \in {selected'[Len(selected')]} :
             /\ best \notin used
             /\ best \notin Range(selected)
             /\ \A j \in Range(rnd) \ used : ScoreNow(best) <= ScoreNow(j)]_vars

\* three picks made, and the candidates left differ in score
C24_Witness ==
    /\ spc = "loop"
    /\ Len(selected) = 3
    /\ used = Range(selected)
    /\ Cardinality(used) = 3
    /\ \E j, k \in Range(rnd) \ used : ScoreNow(j) < ScoreNow(k)

(* ------------------------------ render job ---------------------------- *)
Policies == {"shortest", "audio", "video", "fixed"}

\* values a probe or the configuration can hold, with the durations of the
\* documented examples (video 10 s, audio 6 s, fixed 5 s) among them
VideoDurations == (0..MaxVideoDur) \cup {10}
AudioDurations == (0..MaxAudioDur) \cup {6}
FixedSeconds == {<< >>} \cup {<<x>> : x \in (0..MaxFixed) \cup {5}}
FrameRates == {<<1, 1>>, <<3, 2>>, <<30, 1>>}
\* frames the decoder delivers: fewer than any budget, or the 300 frames of
\* the 10 s, 30 fps example
SourceFrames == (0..MaxSourceFrames) \cup {300}

\* audio_path is None, names a missing file, or names a file ffprobe measures
\* (0 stands for "N/A" or a probe error as well)
AudioFiles ==
    {[given |-> FALSE, exists |-> FALSE, probe |-> 0],
     [given |-> TRUE, exists |-> FALSE, probe |-> 0]}
    \cup {[given |-> TRUE, exists |-> TRUE, probe |-> d] : d \in AudioDurations}

\* probe_audio_duration(audio_path) if audio_path else 0.0
ProbeAudioDuration(af) ==
    IF ~af.given \/ ~af.exists THEN 0 ELSE af.probe

\* Python truthiness of config.fixed_seconds: None and 0.0 are false
Truthy(fs) == fs # << >> /\ fs[1] # 0

TargetDurationMutant(policy, fs, vd, ad) ==
    IF policy = "fixed" /\ Truthy(fs) THEN fs[1]
    ELSE IF policy = "audio" /\ ad > 0 THEN ad
    ELSE IF policy = "video" THEN vd
    ELSE IF ad > 0 THEN Max(vd, ad) ELSE vd

\* the if / elif chain that sets target_duration
TargetDuration(policy, fs, vd, ad) ==
    IF policy = "fixed" /\ Truthy(fs) THEN fs[1]
    ELSE IF policy = "audio" /\ ad > 0 THEN ad
    ELSE IF policy = "video" THEN vd
    ELSE IF ad > 0 THEN Min(vd, ad) ELSE vd

\* floor of x / y for x >= 0, y > 0
Floor(x, y) == x \div y

\* Python round(x / y) for x >= 0, y > 0: ties go to the even neighbour
Round(x, y) ==
    LET q == x \div y
        r == x % y
    IN IF 2 * r < y THEN q
       ELSE IF 2 * r > y THEN q + 1
       ELSE IF q % 2 = 0 THEN q ELSE q + 1

\* max_frames = int(round(target_duration * fps))
MaxFrames(target, rate) == Round(target * rate[1], rate[2])

\* segment_duration = target_duration / len(text_segments) if text_segments
\* else target_duration, as the fraction <<numerator, denominator>>
SegmentDuration(target, n) == IF n > 0 THEN <<target, n>> ELSE <<target, 1>>

SegmentIdxMutant(i, rate, segdur, n) ==
    IF segdur[1] > 0
    THEN Min(Round(i * rate[2] * segdur[2], rate[1] * segdur[1]), n - 1)
    ELSE 0

\* segment_idx = min(int(time / segment_duration), len(rendered_texts) - 1)
\* if segment_duration > 0 else 0, with time = frame_idx / fps
SegmentIdx(i, rate, segdur, n) ==
    IF segdur[1] > 0
    THEN Min(Floor(i * rate[2] * segdur[2], rate[1] * segdur[1]), n - 1)
    ELSE 0

InitRender ==
    /\ duration_policy \in Policies
    /\ fixed_seconds \in FixedSeconds
    /\ video_duration \in VideoDurations
    /\ fps \in FrameRates
    /\ audio_file \in AudioFiles
    /\ text_segments \in 0..MaxSegments
    /\ source_frames \in SourceFrames
    /\ rpc = "duration"
    /\ audio_duration = 0
    /\ target_duration = 0
    /\ max_frames = 0
    /\ frame_idx = 0
    /\ shown = << >>
    /\ PlanIdle
    /\ SelectIdle
    /\ ExtIdle

\* process_video: "Calculate target duration" up to the frame loop
ResolveDuration ==
    /\ rpc = "duration"
    /\ \E ad \in {ProbeAudioDuration(audio_file)} :
       \E target \in {TargetDuration(duration_policy, fixed_seconds,
                                     video_duration, ad)} :
          /\ audio_duration' = ad
          /\ target_duration' = target
          /\ max_frames' = MaxFrames(target, fps)
    /\ frame_idx' = 0
    /\ shown' = << >>
    /\ rpc' = "frames"
    /\ UNCHANGED <<duration_policy, fixed_seconds, video_duration, fps,
                   audio_file, text_segments, source_frames>>
    /\ UNCHANGED <<planVars, selVars, extVars>>

WritesFrameMutant(i, budget, avail) == i < budget + 1 /\ i < avail

\* "while frame_idx < max_frames" is entered and cap.read() gives a frame
WritesFrame(i, budget, avail) == i < budget /\ i < avail

\* one iteration of "while frame_idx < max_frames" in which cap.read() gives
\* a frame: resize, overlay the active caption, write
FrameStep ==
    /\ rpc = "frames"
    /\ WritesFrame(frame_idx, max_frames, source_frames)
    /\ shown' = Append(shown,
                       IF text_segments > 0
                       THEN SegmentIdx(frame_idx, fps,
                                       SegmentDuration(target_duration, text_segments),
                                       text_segments)
                       ELSE -1)
    /\ frame_idx' = frame_idx + 1
    /\ UNCHANGED <<duration_policy, fixed_seconds, video_duration, fps,
                   audio_file, text_segments, source_frames, rpc,
                   audio_duration, target_duration, max_frames>>
    /\ UNCHANGED <<planVars, selVars, extVars>>

\* the loop ends: the frame budget is used up, or cap.read() gives no frame;
\* cap.release(), writer.release()
FrameLoopEnd ==
    /\ rpc = "frames"
    /\ ~WritesFrame(frame_idx, max_frames, source_frames)
    /\ rpc' = "released"
    /\ UNCHANGED <<duration_policy, fixed_seconds, video_duration, fps,
                   audio_file, text_segments, source_frames, audio_duration,
                   target_duration, max_frames, frame_idx, shown>>
    /\ UNCHANGED <<planVars, selVars, extVars>>

NextRender == ResolveDuration \/ FrameStep \/ FrameLoopEnd

SpecRender == InitRender /\ [][NextRender]_vars

\* process_video is straight-line code on one thread: a step that can be
\* taken is taken
SpecRenderLive == SpecRender /\ WF_vars(NextRender)

(* --------------------------- render job: claims ----------------------- *)
Resolved == rpc \in {"frames", "released"}

\* C8: whenever duration_policy is 'fixed' the resolved target duration equals
\* fixed_seconds, for every number the configuration admits as fixed_seconds
\* (ge=0) and whatever the probed video and audio durations are.
C8_FixedTarget ==
    (Resolved /\ duration_policy = "fixed" /\ fixed_seconds # << >>) =>
        target_duration = fixed_seconds[1]

\* the audio track has a usable duration: a path is given, the file exists
\* and ffprobe reports more than 0 seconds
UsableAudio == audio_file.given /\ audio_file.exists /\ audio_file.probe > 0

\* C9: for the non-fixed policies the target is the audio duration under
\* 'audio' with a usable audio, the video duration under 'video', and in
\* every remaining case min(video, audio) with a usable audio and the video
\* duration otherwise.
C9_NonFixedTarget ==
    (Resolved /\ duration_policy # "fixed") =>
        target_duration =
            CASE duration_policy = "audio" /\ UsableAudio -> audio_file.probe
              [] duration_policy = "video" -> video_duration
              [] OTHER -> IF UsableAudio
                          THEN (IF video_duration <= audio_file.probe
                                THEN video_duration ELSE audio_file.probe)
                          ELSE video_duration

C9_Witness ==
    /\ Resolved
    /\ duration_policy = "shortest"
    /\ video_duration = 10
    /\ UsableAudio /\ audio_file.probe = 6
    /\ target_duration = 6

\* the 10 s, 30 fps video with no audio, 2 captions and policy 'shortest'
EndToEndJob ==
    /\ video_duration = 10
    /\ fps = <<30, 1>>
    /\ ~audio_file.given
    /\ text_segments = 2
    /\ duration_policy = "shortest"

\* C10: with n >= 1 segments the caption on frame i is segment
\* min(floor((i / fps) / (target / n)), n - 1); it lies in 0..n-1 and never
\* decreases from one frame to the next; for the 10 s, 30 fps video with no
\* audio, 2 captions and policy 'shortest' the target is 10 s, frames 0-149
\* show caption 0 and frames 150-299 caption 1.  (Stated of the frame written
\* last: every frame of every run is the last one written in the state that
\* follows its FrameStep.)
C10_SegmentIndex ==
    (Resolved /\ text_segments >= 1) =>
        /\ \A i \in {Len(shown) - 1} \cap Nat :
              \E n \in {text_segments} :
              \* (i / fps) / (target / n) = x / y
              \E x \in {i * fps[2] * n} :
              \E y \in {fps[1] * target_duration} :
              \E c \in {shown[i + 1]} :
                 /\ c \in 0..(n - 1)
                 /\ i > 0 => shown[i] <= c
                 \* c = min(floor(x / y), n - 1)
                 /\ y > 0
                 /\ c * y <= x
                 /\ c < n - 1 => x < (c + 1) * y
        /\ EndToEndJob =>
              /\ target_duration = 10
              /\ max_frames = 300
              /\ \A i \in {Len(shown) - 1} \cap Nat :
                    shown[i + 1] = (IF i <= 149 THEN 0 ELSE 1)

C10_Witness ==
    /\ EndToEndJob
    /\ rpc = "released"
    /\ Len(shown) = 300
    /\ shown[150] = 0 /\ shown[151] = 1

\* C20: the frame loop always terminates, and when it has, the number of
\* frames written is min(round(target * fps), frames the source decoder can
\* deliver): never more than the frame budget, and fewer when the source runs
\* out first.
C20_FrameLoopTerminates ==
    /\ <>(rpc = "released")
    /\ [](rpc = "released" =>
            /\ max_frames = Round(target_duration * fps[1], fps[2])
            /\ frame_idx = Min(max_frames, source_frames)
            /\ Len(shown) = frame_idx)

C20_Witness ==
    /\ rpc = "released"
    /\ source_frames = 2
    /\ max_frames = 3
    /\ frame_idx = 2

(* ------------------------ render job: lifecycle ------------------------ *)
\* SpecJob follows one call of process_video from probe_video to its return:
\* which handles are open, what the temp file and the output file hold, and
\* what the call gives back.  A step that can raise has one outcome in which
\* it does.
MaxCanvas == 3

\* sides of config.canvas_size (any int), the odd 1081 among them
CanvasSides == (-1..MaxCanvas) \cup {1081}

AudioPaths == {"none", "missing", "file"}

EnsureEvenMutant(value) == value + (value % 2)

\* int(value) & ~1: bit 0 of the two's complement value is cleared, and bit 0
\* is value mod 2
EnsureEven(value) == value - (value % 2)

\* what the except clause of process_video gives back
OnExceptionMutant(step) == "raised"

OnException(step) == "false"

\* if audio_path and audio_path.exists()
WantsMuxMutant(ap) == ap # "none"

WantsMux(ap) == ap = "file"

\* video_clip.audio of VideoFileClip(temp_video): the temp video was written
\* frame by frame by cv2.VideoWriter, which writes no audio track, whatever
\* the source video carries
ClipAudio(src_audio) == FALSE

\* CompositeAudioClip([video_clip.audio, audio_clip]) if config.mix_audio and
\* video_clip.audio, else audio_clip
MixOrReplace(mix, clip_audio) == IF mix /\ clip_audio THEN "mix" ELSE "music"

MuxFallbackMutant(temp, out) == out

\* except branch of _add_audio_to_video: if temp_video.exists(), move it to
\* output_path (replacing what is there)
MuxFallback(temp, out) == IF temp # "absent" THEN temp ELSE out

MuxSteps == {"mux_open", "mux_audio", "mux_write", "mux_close"}

InitJob ==
    /\ canvas_size \in CanvasSides \X CanvasSides
    /\ out_size = <<0, 0>>
    /\ source_audio \in BOOLEAN
    /\ audio_path \in AudioPaths
    /\ mix_audio \in BOOLEAN
    /\ jpc = "probe"
    /\ cap = "unopened"
    /\ writer = "unopened"
    /\ temp_video = "absent"
    /\ output = "absent"
    /\ final_audio = "none"
    /\ mux_attempted = FALSE
    /\ failed_at = "none"
    /\ result = "running"
    /\ PlanIdle
    /\ SelectIdle
    /\ RenderIdle
    /\ WrapIdle
    /\ BatchIdle
    /\ AuxIdle

\* an exception reaches "except Exception" of process_video: log, return
\* False.  Nothing releases cap or writer here; a handle left open is closed
\* only if and when the interpreter finalises the object.
Raise(step) ==
    /\ failed_at' = step
    /\ result' = OnException(step)
    /\ jpc' = "done"
    /\ \E finalised \in BOOLEAN :
          /\ cap' = IF finalised /\ cap = "open" THEN "released" ELSE cap
          /\ writer' = IF finalised /\ writer = "open" THEN "released" ELSE writer
    /\ UNCHANGED <<canvas_size, out_size, source_audio, audio_path, mix_audio,
                   temp_video, output, final_audio, mux_attempted>>

\* src_width, src_height, video_duration, fps = probe_video(video_path)
ProbeVideo ==
    /\ jpc = "probe"
    /\ \/ /\ jpc' = "canvas"
          /\ UNCHANGED <<canvas_size, out_size, source_audio, audio_path,
                         mix_audio, cap, writer, temp_video, output,
                         final_audio, mux_attempted, failed_at, result>>
       \/ Raise("probe")
    /\ UNCHANGED <<planVars, selVars, renVars, wrapVars, batchVars, auxVars>>

\* out_width, out_height = config.canvas_size, each through _ensure_even
Canvas ==
    /\ jpc = "canvas"
    /\ out_size' = <<EnsureEven(canvas_size[1]), EnsureEven(canvas_size[2])>>
    /\ jpc' = "open"
    /\ UNCHANGED <<canvas_size, source_audio, audio_path, mix_audio, cap,
                   writer, temp_video, output, final_audio, mux_attempted,
                   failed_at, result>>
    /\ UNCHANGED <<planVars, selVars, renVars, wrapVars, batchVars, auxVars>>

\* cap = cv2.VideoCapture(...); raise ProcessingError if not cap.isOpened()
OpenCapture ==
    /\ jpc = "open"
    /\ \/ /\ cap' = "open"
          /\ jpc' = "writer"
          /\ UNCHANGED <<canvas_size, out_size, source_audio, audio_path,
                         mix_audio, writer, temp_video, output, final_audio,
                         mux_attempted, failed_at, result>>
       \/ Raise("open")
    /\ UNCHANGED <<planVars, selVars, renVars, wrapVars, batchVars, auxVars>>

\* temp_video.parent.mkdir, cv2.VideoWriter with mp4v, then XVID, MJPG, MP42;
\* raise ProcessingError if none opens
OpenWriter ==
    /\ jpc = "writer"
    /\ \/ /\ writer' = "open"
          /\ temp_video' = "unfinished"
          /\ jpc' = "renderer"
          /\ UNCHANGED <<canvas_size, out_size, source_audio, audio_path,
                         mix_audio, cap, output, final_audio, mux_attempted,
                         failed_at, result>>
       \/ Raise("writer")
    /\ UNCHANGED <<planVars, selVars, renVars, wrapVars, batchVars, auxVars>>

\* EmojiTextRenderer(...) and the pre-rendering of the segments (an error in
\* one segment is caught and replaced by an empty placeholder)
InitRenderer ==
    /\ jpc = "renderer"
    /\ \/ /\ jpc' = "duration"
          /\ UNCHANGED <<canvas_size, out_size, source_audio, audio_path,
                         mix_audio, cap, writer, temp_video, output,
                         final_audio, mux_attempted, failed_at, result>>
       \/ Raise("renderer")
    /\ UNCHANGED <<planVars, selVars, renVars, wrapVars, batchVars, auxVars>>

\* probe_audio_duration and the target duration; with an existing audio file
\* check_ffmpeg_installed() is called outside probe_audio_duration's try
Duration ==
    /\ jpc = "duration"
    /\ \/ /\ jpc' = "frames"
          /\ UNCHANGED <<canvas_size, out_size, source_audio, audio_path,
                         mix_audio, cap, writer, temp_video, output,
                         final_audio, mux_attempted, failed_at, result>>
       \/ /\ audio_path = "file"
          /\ Raise("duration")
    /\ UNCHANGED <<planVars, selVars, renVars, wrapVars, batchVars, auxVars>>

\* the frame loop runs to its end, then cap.release(), writer.release(); or a
\* resize, overlay or write inside the loop raises
FrameLoop ==
    /\ jpc = "frames"
    /\ \/ /\ cap' = "released"
          /\ writer' = "released"
          /\ temp_video' = "silent"
          /\ jpc' = "audio"
          /\ UNCHANGED <<canvas_size, out_size, source_audio, audio_path,
                         mix_audio, output, final_audio, mux_attempted,
                         failed_at, result>>
       \/ Raise("frames")
    /\ UNCHANGED <<planVars, selVars, renVars, wrapVars, batchVars, auxVars>>

\* a step of _add_audio_to_video raises: its except clause logs a warning and
\* moves the temp video to output_path; process_video goes on to return True
MuxFails(step, out) ==
    /\ failed_at' = step
    /\ output' = MuxFallback(temp_video, out)
    /\ temp_video' = "absent"
    /\ jpc' = "return"
    /\ UNCHANGED <<canvas_size, out_size, source_audio, audio_path, mix_audio,
                   cap, writer, final_audio, mux_attempted, result>>

\* "Add audio if provided": call _add_audio_to_video, or move the temp file
AudioStep ==
    /\ jpc = "audio"
    /\ IF WantsMux(audio_path)
       THEN /\ mux_attempted' = TRUE
            /\ jpc' = "mux_open"
            /\ UNCHANGED <<temp_video, output>>
       ELSE /\ output' = temp_video
            /\ temp_video' = "absent"
            /\ jpc' = "return"
            /\ UNCHANGED mux_attempted
    /\ UNCHANGED <<canvas_size, out_size, source_audio, audio_path, mix_audio,
                   cap, writer, final_audio, failed_at, result>>
    /\ UNCHANGED <<planVars, selVars, renVars, wrapVars, batchVars, auxVars>>

\* VideoFileClip(temp_video), AudioFileClip(audio_path): a missing audio file
\* cannot be opened
MuxOpen ==
    /\ jpc = "mux_open"
    /\ \/ /\ audio_path = "file"
          /\ jpc' = "mux_audio"
          /\ UNCHANGED <<canvas_size, out_size, source_audio, audio_path,
                         mix_audio, cap, writer, temp_video, output,
                         final_audio, mux_attempted, failed_at, result>>
       \/ MuxFails("mux_open", output)
    /\ UNCHANGED <<planVars, selVars, renVars, wrapVars, batchVars, auxVars>>

\* volume gain, mix or replace, trim to the target duration, with_audio
MuxAudio ==
    /\ jpc = "mux_audio"
    /\ \/ /\ final_audio' = MixOrReplace(mix_audio, ClipAudio(source_audio))
          /\ jpc' = "mux_write"
          /\ UNCHANGED <<canvas_size, out_size, source_audio, audio_path,
                         mix_audio, cap, writer, temp_video, output,
                         mux_attempted, failed_at, result>>
       \/ MuxFails("mux_audio", output)
    /\ UNCHANGED <<planVars, selVars, renVars, wrapVars, batchVars, auxVars>>

\* final_clip.write_videofile(output_path, ...): a failed write leaves nothing
\* or a partial file at output_path
MuxWrite ==
    /\ jpc = "mux_write"
    /\ \/ /\ output' = "muxed"
          /\ jpc' = "mux_close"
          /\ UNCHANGED <<canvas_size, out_size, source_audio, audio_path,
                         mix_audio, cap, writer, temp_video, final_audio,
                         mux_attempted, failed_at, result>>
       \/ \E left \in {"absent", "partial"} : MuxFails("mux_write", left)
    /\ UNCHANGED <<planVars, selVars, renVars, wrapVars, batchVars, auxVars>>

\* close the clips, then unlink the temp video (a failed unlink is only logged)
MuxClose ==
    /\ jpc = "mux_close"
    /\ \/ /\ \E unlinked \in BOOLEAN :
                temp_video' = IF unlinked THEN "absent" ELSE temp_video
          /\ jpc' = "return"
          /\ UNCHANGED <<canvas_size, out_size, source_audio, audio_path,
                         mix_audio, cap, writer, output, final_audio,
                         mux_attempted, failed_at, result>>
       \/ MuxFails("mux_close", output)
    /\ UNCHANGED <<planVars, selVars, renVars, wrapVars, batchVars, auxVars>>

\* logger.info("Successfully processed"); return True
Return ==
    /\ jpc = "return"
    /\ result' = "true"
    /\ jpc' = "done"
    /\ UNCHANGED <<canvas_size, out_size, source_audio, audio_path, mix_audio,
                   cap, writer, temp_video, output, final_audio,
                   mux_attempted, failed_at>>
    /\ UNCHANGED <<planVars, selVars, renVars, wrapVars, batchVars, auxVars>>

NextJob ==
    \/ ProbeVideo \/ Canvas \/ OpenCapture \/ OpenWriter \/ InitRenderer
    \/ Duration \/ FrameLoop \/ AudioStep \/ MuxOpen \/ MuxAudio \/ MuxWrite
    \/ MuxClose \/ Return

SpecJob == InitJob /\ [][NextJob]_vars

(* ----------------------- render job lifecycle: claims ------------------ *)
Returned == jpc = "done"

\* the largest even integer that is at most v
EvenBelow(v, e) == e % 2 = 0 /\ e <= v /\ v < e + 2

\* C11: for every configured canvas_size (w, h), odd values included, the
\* output width and height used are even and are the configured values
\* rounded down to the nearest even integer (at most 1 below them).
C11_EvenCanvas ==
    (jpc \notin {"probe", "canvas"} /\ failed_at # "probe") =>
        /\ EvenBelow(canvas_size[1], out_size[1])
        /\ EvenBelow(canvas_size[2], out_size[2])

C11_Witness ==
    /\ canvas_size = <<1081, 3>>
    /\ out_size = <<1080, 2>>
    /\ writer = "open"

C14_NoAudioMovesTemp ==
    audio_path \in {"none", "missing"} =>
        /\ ~mux_attempted
        /\ (Returned /\ result = "true") =>
              (output = "silent" /\ temp_video = "absent")

C14_Witness ==
    /\ Returned
    /\ audio_path = "missing"
    /\ result = "true"
    /\ output = "silent"
    /\ temp_video = "absent"

\* the muxed clip has its audio chosen
AudioChosen == jpc \in {"mux_write", "mux_close"} \/ output = "muxed"

\* C15: with an audio path, mix_audio true and a source video that carries an
\* audio track, the output's audio is the source's audio combined with the
\* music; in every other case the music replaces the audio.
C15_MixWithSourceAudio ==
    AudioChosen =>
        final_audio = IF mix_audio /\ source_audio THEN "mix" ELSE "music"

\* C16: on every exit path on which the decoder was opened, the decoder and
\* the writer are released before the job returns.
C16_HandlesReleased ==
    (Returned /\ cap # "unopened") => (cap = "released" /\ writer # "open")

RaisingSteps == {"probe", "open", "writer", "renderer", "duration", "frames"}

MuxWritten ==
    /\ mux_attempted
    /\ \/ jpc = "mux_close"
       \/ jpc \in {"return", "done"} /\ failed_at \in {"none", "mux_close"}

\* C29: once the mux step has written the audio-bearing file to the output
\* path, the file at the output path when the job returns is that muxed
\* file, also when a later cleanup step (closing the clips, deleting the
\* temp video) fails.
C29_MuxedOutputKept ==
    (Returned /\ MuxWritten) => output = "muxed"

(* ----------------------------- word wrapping --------------------------- *)
\* SpecWrap runs EmojiTextRenderer._hard_wrap_text on a text given as the
\* list of its words; a word is known by the width the font measures for it.
MaxWords == 3
MaxWordWidth == 3
MaxLineWidth == 4
MaxSpaceWidth == 2

RECURSIVE SumSeq(_)
SumSeq(ws) == IF ws = << >> THEN 0 ELSE Head(ws) + SumSeq(Tail(ws))

\* _calc_line_size of the words of a line joined by single spaces
CalcLineSize(line, sp) ==
    IF line = << >> THEN 0 ELSE SumSeq(line) + sp * (Len(line) - 1)

FitsMutant(width, mw) == width <= mw + 1

\* if width <= max_width
Fits(width, mw) == width <= mw

Texts == UNION {[1..n -> 0..MaxWordWidth] : n \in 0..MaxWords}

InitWrap ==
    /\ words \in Texts
    /\ max_width \in 0..MaxLineWidth
    /\ space_width \in 1..MaxSpaceWidth
    /\ wpc = "loop"
    /\ word_idx = 0
    /\ current = << >>
    /\ lines = << >>
    /\ PlanIdle
    /\ SelectIdle
    /\ RenderIdle
    /\ JobIdle
    /\ BatchIdle
    /\ AuxIdle

\* one pass of "for word in text.split()"
WrapWord ==
    /\ wpc = "loop"
    /\ word_idx < Len(words)
    /\ \E word \in {words[word_idx + 1]} :
       \E test \in {Append(current, word)} :
          IF Fits(CalcLineSize(test, space_width), max_width)
          THEN /\ current' = test
               /\ UNCHANGED lines
          ELSE /\ lines' = IF current # << >> THEN Append(lines, current)
                           ELSE lines
               /\ current' = <<word>>
    /\ word_idx' = word_idx + 1
    /\ UNCHANGED <<words, max_width, space_width, wpc>>
    /\ UNCHANGED <<planVars, selVars, renVars, jobVars, batchVars, auxVars>>

\* after the loop: if current: lines.append(current); return the joined lines
WrapReturn ==
    /\ wpc = "loop"
    /\ word_idx = Len(words)
    /\ lines' = IF current # << >> THEN Append(lines, current) ELSE lines
    /\ current' = << >>
    /\ wpc' = "done"
    /\ UNCHANGED <<words, max_width, space_width, word_idx>>
    /\ UNCHANGED <<planVars, selVars, renVars, jobVars, batchVars, auxVars>>

NextWrap == WrapWord \/ WrapReturn

SpecWrap == InitWrap /\ [][NextWrap]_vars

(* ------------------------- word wrapping: claims ----------------------- *)
\* C12: for any text and any max_width, every line the word-wrapper produces
\* measures at most max_width, except a line made of exactly one word that is
\* by itself wider than max_width.
C12_WrappedLinesFit ==
    \A k \in 1..Len(lines) :
        \/ CalcLineSize(lines[k], space_width) <= max_width
        \/ /\ Len(lines[k]) = 1
           /\ lines[k][1] > max_width

C12_Witness ==
    /\ wpc = "done"
    /\ Len(lines) = 2
    /\ Len(lines[1]) = 2
    /\ Len(lines[2]) = 1 /\ lines[2][1] > max_width

(* --------------------------- processing runs --------------------------- *)
\* SpecBatch follows one background run of ProcessingService: either
\* process_batch_videos over the planned jobs, or process_single_video.  A
\* progress value is the fraction <<numerator, denominator>>.
MaxBatchVideos == 2
MaxBatchAudios == 2
MaxBatchRows == 2
MaxAmount == 3
MaxBatchJobs == 4

\* a call job_service.update_job(job_id, status=, progress=, message=);
\* count and total are the numbers the message carries ("Processing i/total",
\* "Completed k/total files"), 0 and 0 where it carries none
Report(status, progress, count, total) ==
    [status |-> status, progress |-> progress, count |-> count,
     total |-> total]

\* jobs = _build_unique_jobs(...) if unique_mode and unique_amount
\*        else _build_all_jobs(...)
PlannedJobs(vs, as, rows, mode, amount) ==
    IF mode /\ amount # 0
    THEN BuildUniqueJobs(vs, as, rows, amount)
    ELSE BuildAllJobs(vs, as, rows)

JobProgressMutant(i, total) == <<5 * total + 100 * i, total>>

\* progress = 5 + (i / total) * 90
JobProgress(i, total) == <<5 * total + 90 * i, total>>

\* what one job's download, render and upload can come to
Outcomes == {"download_failed", "render_failed", "upload_failed", "ok"}

ContinuesMutant(outcome) == outcome = "ok"

\* the loop goes on to the next job: a download or upload that raises is
\* caught by the try inside the loop, a render that fails returns False
Continues(outcome) == TRUE

InitBatch ==
    /\ run_kind \in {"batch", "single"}
    /\ IF run_kind = "batch"
       THEN /\ \E v \in 0..MaxBatchVideos : vids = [i \in 1..v |-> VideoKey(i)]
            /\ \E a \in 0..MaxBatchAudios : auds = [i \in 1..a |-> AudioKey(i)]
            /\ \E c \in 0..MaxBatchRows :
                  text_combinations = [i \in 1..c |-> CaptionRow(i)]
            /\ unique_mode \in BOOLEAN
            /\ unique_amount \in 0..MaxAmount
            /\ has_audio = FALSE
            /\ Len(PlannedJobs(vids, auds, rows_used, unique_mode,
                               unique_amount)) <= MaxBatchJobs
       ELSE /\ vids = << >>
            /\ auds = << >>
            /\ text_combinations = << >>
            /\ unique_mode = FALSE
            /\ unique_amount = 0
            /\ has_audio \in BOOLEAN
    /\ want = 1
    /\ ppc = "idle"
    /\ jobs = << >>
    /\ N = 0
    /\ t = 0
    /\ picks_per_video = << >>
    /\ bpc = "start"
    /\ loop_i = 0
    /\ attempts = << >>
    /\ output_files = << >>
    /\ ok_jobs = {}
    /\ job_outcomes = << >>
    /\ reports = << >>
    /\ SelectIdle
    /\ RenderIdle
    /\ JobIdle
    /\ WrapIdle
    /\ AuxIdle

\* process_batch_videos up to "if not vids": report 0 %, list the folders
BatchList ==
    /\ run_kind = "batch"
    /\ bpc = "start"
    /\ \/ /\ vids # << >>
          /\ reports' = Append(reports, Report("processing", <<0, 1>>, 0, 0))
          /\ bpc' = "build"
       \/ \* no videos in the folder, or the listing raises
          /\ reports' = reports \o <<Report("processing", <<0, 1>>, 0, 0),
                                     Report("failed", <<0, 1>>, 0, 0)>>
          /\ bpc' = "done"
    /\ UNCHANGED <<run_kind, unique_mode, unique_amount, has_audio, loop_i,
                   attempts, output_files, ok_jobs, job_outcomes>>
    /\ UNCHANGED <<planVars, selVars, renVars, jobVars, wrapVars, auxVars>>

\* rows_used, build the jobs, "if not jobs", report 5 %
BatchBuild ==
    /\ bpc = "build"
    /\ \E js \in {PlannedJobs(vids, auds, rows_used, unique_mode,
                              unique_amount)} :
          /\ jobs' = js
          /\ IF js = << >>
             THEN /\ reports' = Append(reports,
                                       Report("failed", <<0, 1>>, 0, 0))
                  /\ bpc' = "done"
             ELSE /\ reports' = Append(reports,
                                       Report("processing", <<5, 1>>, 0,
                                              Len(js)))
                  /\ bpc' = "loop"
    /\ UNCHANGED <<vids, auds, text_combinations, want, ppc, N, t,
                   picks_per_video>>
    /\ UNCHANGED <<run_kind, unique_mode, unique_amount, has_audio, loop_i,
                   attempts, output_files, ok_jobs, job_outcomes>>
    /\ UNCHANGED <<selVars, renVars, jobVars, wrapVars, auxVars>>

\* one pass of "for i, (...) in enumerate(jobs, 1)": report the progress,
\* download, render, upload
BatchJob ==
    /\ bpc = "loop"
    /\ loop_i < Len(jobs)
    /\ \E i \in {loop_i + 1} : \E outcome \in Outcomes :
          /\ attempts' = Append(attempts, i)
          /\ output_files' = IF outcome = "ok" THEN Append(output_files, i)
                             ELSE output_files
          /\ ok_jobs' = IF outcome = "ok" THEN ok_jobs \cup {i} ELSE ok_jobs
          /\ job_outcomes' = Append(job_outcomes, outcome)
          /\ IF Continues(outcome)
             THEN /\ reports' = Append(reports,
                                       Report("processing",
                                              JobProgress(i, Len(jobs)), i,
                                              Len(jobs)))
                  /\ loop_i' = i
                  /\ bpc' = "loop"
             ELSE /\ reports' = reports \o
                        <<Report("processing", JobProgress(i, Len(jobs)), i,
                                 Len(jobs)),
                          Report("failed", <<0, 1>>, 0, 0)>>
                  /\ loop_i' = i
                  /\ bpc' = "done"
    /\ UNCHANGED <<run_kind, unique_mode, unique_amount, has_audio>>
    /\ UNCHANGED <<planVars, selVars, renVars, jobVars, wrapVars, auxVars>>

\* after the loop: report "completed", 100 %, "Completed k/total files"
BatchFinish ==
    /\ bpc = "loop"
    /\ loop_i = Len(jobs)
    /\ reports' = Append(reports, Report("completed", <<100, 1>>,
                                         Len(output_files), Len(jobs)))
    /\ bpc' = "done"
    /\ UNCHANGED <<run_kind, unique_mode, unique_amount, has_audio, loop_i,
                   attempts, output_files, ok_jobs, job_outcomes>>
    /\ UNCHANGED <<planVars, selVars, renVars, jobVars, wrapVars, auxVars>>

\* the terminal status of a single run: "completed" after
\* "if success and self.storage_service" and an upload that returned,
\* "failed" from the else branch or the outer except
TerminalStatusMutant(success, uploaded) ==
    IF success THEN "completed" ELSE "failed"

TerminalStatus(success, uploaded) ==
    IF success /\ uploaded THEN "completed" ELSE "failed"

\* process_single_video: report 10 %, download the video (and the audio),
\* report 30 %; a download that raises ends in the outer except, "failed"
SingleDownload ==
    /\ run_kind = "single"
    /\ bpc = "start"
    /\ \/ /\ reports' = reports \o <<Report("processing", <<10, 1>>, 0, 0),
                                     Report("processing", <<30, 1>>, 0, 0)>>
          /\ bpc' = "single_render"
          /\ UNCHANGED job_outcomes
       \/ /\ reports' = reports \o <<Report("processing", <<10, 1>>, 0, 0),
                                     Report("failed", <<0, 1>>, 0, 0)>>
          /\ job_outcomes' = <<"download_failed">>
          /\ bpc' = "done"
    /\ UNCHANGED <<run_kind, unique_mode, unique_amount, has_audio, loop_i,
                   attempts, output_files, ok_jobs>>
    /\ UNCHANGED <<planVars, selVars, renVars, jobVars, wrapVars, auxVars>>

\* success = process_video(...): report 80 % and go on to upload, or report
\* "failed"
SingleRender ==
    /\ bpc = "single_render"
    /\ attempts' = Append(attempts, 1)
    /\ \E success \in BOOLEAN :
          IF success
          THEN /\ reports' = Append(reports,
                                    Report("processing", <<80, 1>>, 0, 0))
               /\ bpc' = "single_upload"
               /\ UNCHANGED job_outcomes
          ELSE /\ reports' = Append(reports,
                                    Report(TerminalStatus(FALSE, FALSE),
                                           <<0, 1>>, 0, 0))
               /\ job_outcomes' = <<"render_failed">>
               /\ bpc' = "done"
    /\ UNCHANGED <<run_kind, unique_mode, unique_amount, has_audio, loop_i,
                   output_files, ok_jobs>>
    /\ UNCHANGED <<planVars, selVars, renVars, jobVars, wrapVars, auxVars>>

\* _upload_output_to_s3, then report "completed", 100 %; an upload that
\* raises ends in the outer except, "failed", 0 %
SingleUpload ==
    /\ bpc = "single_upload"
    /\ \E uploaded \in BOOLEAN :
       \E status \in {TerminalStatus(TRUE, uploaded)} :
          /\ job_outcomes' = <<IF uploaded THEN "ok" ELSE "upload_failed">>
          /\ output_files' = IF uploaded THEN <<1>> ELSE output_files
          /\ ok_jobs' = IF uploaded THEN {1} ELSE ok_jobs
          /\ reports' = Append(reports,
                               Report(status,
                                      IF status = "completed"
                                      THEN <<100, 1>> ELSE <<0, 1>>, 0, 0))
    /\ bpc' = "done"
    /\ UNCHANGED <<run_kind, unique_mode, unique_amount, has_audio, loop_i,
                   attempts>>
    /\ UNCHANGED <<planVars, selVars, renVars, jobVars, wrapVars, auxVars>>

NextBatch ==
    \/ BatchList \/ BatchBuild \/ BatchJob \/ BatchFinish
    \/ SingleDownload \/ SingleRender \/ SingleUpload

SpecBatch == InitBatch /\ [][NextBatch]_vars

(* ------------------------ processing runs: claims ---------------------- *)
\* the batch run went through its job loop to the end
BatchEnded == run_kind = "batch" /\ bpc = "done" /\ jobs # << >>

\* reports with status "completed"
Completions == {k \in 1..Len(reports) : reports[k].status = "completed"}

C19_ProgressRange ==
    /\ \A k \in 1..Len(reports) : \E p \in {reports[k].progress} :
          /\ p[2] > 0
          /\ 0 <= p[1] /\ p[1] <= 100 * p[2]
          /\ p[1] = 100 * p[2] =>
                (reports[k].status = "completed" /\ k = Len(reports)
                 /\ bpc = "done")
          /\ reports[k].status = "completed" => p[1] = 100 * p[2]
    /\ \A k, l \in 1..Len(reports) :
          (k < l /\ reports[k].status = "processing"
                 /\ reports[l].status = "processing") =>
              reports[k].progress[1] * reports[l].progress[2]
                  <= reports[l].progress[1] * reports[k].progress[2]

C19_Witness ==
    /\ run_kind = "batch"
    /\ bpc = "done"
    /\ Len(jobs) = 3
    /\ Len(reports) = 6
    /\ reports[3].progress = <<105, 3>>
    /\ reports[6] = Report("completed", <<100, 1>>, 1, 3)

\* the reports with a terminal status
Terminals ==
    {k \in 1..Len(reports) : reports[k].status \in {"completed", "failed"}}

MaxTextLen == 2
MaxCacheWidth == 1

coreVars == <<planVars, selVars, renVars, jobVars, wrapVars, batchVars>>

CoreIdle ==
    PlanIdle /\ SelectIdle /\ RenderIdle /\ JobIdle /\ WrapIdle /\ BatchIdle

\* characters a caption can be made of, the separator of the key among them
Chars == {"_", "1"}

CacheTexts == UNION {[1..n -> Chars] : n \in 0..MaxTextLen}

\* None, small widths, and a width of two digits
CacheWidths == {<< >>} \cup {<<n>> : n \in (0..MaxCacheWidth) \cup {11}}

DigitChar(d) == <<"0", "1", "2", "3", "4", "5", "6", "7", "8", "9">>[d + 1]

RECURSIVE Digits(_)
\* str(n) for n >= 0
Digits(n) == IF n < 10 THEN <<DigitChar(n)>>
             ELSE Append(Digits(n \div 10), DigitChar(n % 10))

\* str(max_width)
StrWidth(mw) == IF mw = << >> THEN <<"N", "o", "n", "e">> ELSE Digits(mw[1])

CacheKeyMutant(text, mw) == text

\* cache_key = f"{text}_{max_width}"
CacheKey(text, mw) == text \o <<"_">> \o StrWidth(mw)

\* what render_text draws when it does not answer from the cache: the text,
\* wrapped at max_width "if max_width" (not for None, not for 0)
Uncached(text, mw) ==
    [text |-> text, wrap |-> IF mw # << >> /\ mw[1] # 0 THEN mw ELSE << >>]

\* an array after the caller has written into it
Scribbled == [text |-> <<"?">>, wrap |-> << >>]

\* an identity no array alive has
Fresh(ids) == CHOOSE i \in 1..(Cardinality(ids) + 1) : i \notin ids

StoredMutant(bgra, copy) == bgra

\* self._render_cache[cache_key] = bgra.copy(): the copy is stored
Stored(bgra, copy) == copy

\* arrays still referenced: those in the cache and the one the caller holds
Alive(cache, ret) == Range(cache) \cup ({ret} \ {0})

\* h restricted to the identities in keep
Restrict(h, keep) == [i \in keep |-> h[i]]

\* f with key k set to v
Put(f, k, v) == [x \in DOMAIN f \cup {k} |-> IF x = k THEN v ELSE f[x]]

InitCache ==
    /\ requests \in [1..2 -> [text : CacheTexts, max_width : CacheWidths,
                              large : BOOLEAN]]
    /\ heap = << >>
    /\ render_cache = << >>
    /\ returned = 0
    /\ last_call = [request |-> 0, hit |-> FALSE, bitmap |-> << >>]
    /\ CoreIdle
    /\ ResizeIdle
    /\ OverlayIdle
    /\ TaskIdle
    /\ AcceptIdle
    /\ NameIdle

\* render_text(text, max_width)
RenderText ==
    /\ \E r \in 1..2 :
       \E req \in {requests[r]} :
       \E key \in {CacheKey(req.text, req.max_width)} :
          IF key \in DOMAIN render_cache
          THEN \* return self._render_cache[cache_key].copy()
               \E copy \in {Fresh(Range(render_cache))} :
                  /\ heap' = Put(Restrict(heap, Range(render_cache)), copy,
                                 heap[render_cache[key]])
                  /\ returned' = copy
                  /\ last_call' = [request |-> r, hit |-> TRUE,
                                   bitmap |-> heap[render_cache[key]]]
                  /\ UNCHANGED render_cache
          ELSE \* wrap, draw, convert to bgra; "if bgra.nbytes < 50 MB" store
               \* a copy; return bgra
               \E bgra \in {Fresh(Range(render_cache))} :
               \E copy \in {Fresh(Range(render_cache) \cup {bgra})} :
               \E bitmap \in {Uncached(req.text, req.max_width)} :
                  /\ render_cache' =
                        IF req.large THEN render_cache
                        ELSE Put(render_cache, key, Stored(bgra, copy))
                  /\ returned' = bgra
                  /\ heap' = Restrict(
                        Put(Put(heap, bgra, bitmap), copy, bitmap),
                        Alive(render_cache', bgra))
                  /\ last_call' = [request |-> r, hit |-> FALSE,
                                   bitmap |-> bitmap]
    /\ UNCHANGED requests
    /\ UNCHANGED <<coreVars, resizeVars, overlayVars, taskVars, acceptVars, nameVars>>

\* the caller writes into the array the last call returned
MutateReturned ==
    /\ returned # 0
    /\ heap[returned] # Scribbled
    /\ heap' = [heap EXCEPT ![returned] = Scribbled]
    /\ UNCHANGED <<requests, render_cache, returned, last_call>>
    /\ UNCHANGED <<coreVars, resizeVars, overlayVars, taskVars, acceptVars, nameVars>>

NextCache == RenderText \/ MutateReturned

SpecCache == InitCache /\ [][NextCache]_vars

(* -------------------------- render cache: claims ----------------------- *)
\* C21: on one renderer, after any sequence of render_text calls, calls whose
\* returned bitmap the caller then mutates included, render_text(text,
\* max_width) returns what an uncached render of the same pair produces:
\* distinct pairs never share a cache entry, and an entry never changes once
\* stored.
C21_CacheIsTransparent ==
    /\ last_call.request # 0 =>
          last_call.bitmap = Uncached(requests[last_call.request].text,
                                      requests[last_call.request].max_width)
    /\ \A r \in DOMAIN requests :
          \E key \in {CacheKey(requests[r].text, requests[r].max_width)} :
             key \in DOMAIN render_cache =>
                heap[render_cache[key]] =
                    Uncached(requests[r].text, requests[r].max_width)
    /\ \A r, q \in DOMAIN requests :
          CacheKey(requests[r].text, requests[r].max_width)
              = CacheKey(requests[q].text, requests[q].max_width)
          => (requests[r].text = requests[q].text
              /\ requests[r].max_width = requests[q].max_width)

C21_Witness ==
    /\ last_call.hit
    /\ last_call.request = 2
    /\ requests[1].text = <<"1", "_">> /\ requests[1].max_width = <<1>>
    /\ requests[2].text = <<"1">> /\ requests[2].max_width = <<11>>
    /\ Cardinality(DOMAIN render_cache) = 2
    /\ heap[returned] = Scribbled

(* ------------------------------ frame resize --------------------------- *)
\* SpecResize takes one decoded frame through the resize of the frame loop:
\* _resize_cover, _resize_contain or a plain cv2.resize, then the final size
\* check.  A scale is the fraction <<numerator, denominator>>.
MaxFrameSide == 5
MaxCanvasSide == 5

FitModes == {"cover", "zoom", "contain", "stretch"}

\* out_width, out_height: even, and large enough for a writer to open
CanvasSizes ==
    {<<EnsureEven(a), EnsureEven(b)>> : a, b \in 2..MaxCanvasSide}

ScaleCoverMutant(w, h, ow, oh) ==
    IF ow * h <= oh * w THEN <<ow, w>> ELSE <<oh, h>>

\* scale = max(out_width / float(width), out_height / float(height))
ScaleCover(w, h, ow, oh) ==
    IF ow * h >= oh * w THEN <<ow, w>> ELSE <<oh, h>>

ScaleContainMutant(w, h, ow, oh) ==
    IF ow * h >= oh * w THEN <<ow, w>> ELSE <<oh, h>>

\* scale = min(out_width / float(width), out_height / float(height))
ScaleContain(w, h, ow, oh) ==
    IF ow * h <= oh * w THEN <<ow, w>> ELSE <<oh, h>>

\* max(1, int(round(side * scale)))
ScaledSide(side, scale) == Max(1, Round(side * scale[1], scale[2]))

\* resized[y0:y1, x0:x1] with y0 = max(0, (new - out) // 2), y1 = y0 + out:
\* the length of the slice along one axis
CropSide(new, out) ==
    LET lo == Max(0, (new - out) \div 2)
    IN Max(0, Min(new, lo + out) - lo)

InitResize ==
    /\ frame_size \in (1..MaxFrameSide) \X (1..MaxFrameSide)
    /\ canvas \in CanvasSizes
    /\ fit_mode \in FitModes
    /\ scaled = <<0, 0>>
    /\ written = <<0, 0>>
    /\ zpc = "fresh"
    /\ CoreIdle
    /\ CacheIdle
    /\ OverlayIdle
    /\ TaskIdle
    /\ AcceptIdle
    /\ NameIdle

\* "Resize frame according to fit mode" up to writer.write(frame)
ResizeFrame ==
    /\ zpc = "fresh"
    /\ \E w \in {frame_size[1]} : \E h \in {frame_size[2]} :
       \E ow \in {canvas[1]} : \E oh \in {canvas[2]} :
          IF fit_mode \in {"cover", "zoom"}
          THEN \* _resize_cover: scale, center crop, "final safety resize"
               \E sc \in {ScaleCover(w, h, ow, oh)} :
               \E nw \in {ScaledSide(w, sc)} : \E nh \in {ScaledSide(h, sc)} :
                  /\ scaled' = <<nw, nh>>
                  /\ written' = IF <<CropSide(nw, ow), CropSide(nh, oh)>>
                                   # <<ow, oh>>
                                THEN <<ow, oh>>
                                ELSE <<CropSide(nw, ow), CropSide(nh, oh)>>
                  /\ zpc' = "written"
          ELSE IF fit_mode = "contain"
          THEN \* _resize_contain: scale, paste centered on a black canvas;
               \* a resized frame larger than the canvas cannot be pasted
               \E sc \in {ScaleContain(w, h, ow, oh)} :
               \E nw \in {ScaledSide(w, sc)} : \E nh \in {ScaledSide(h, sc)} :
                  /\ scaled' = <<nw, nh>>
                  /\ IF nw <= ow /\ nh <= oh
                     THEN written' = <<ow, oh>> /\ zpc' = "written"
                     ELSE written' = <<0, 0>> /\ zpc' = "raised"
          ELSE \* cv2.resize(frame, (out_width, out_height))
               /\ scaled' = <<ow, oh>>
               /\ written' = <<ow, oh>>
               /\ zpc' = "written"
    /\ UNCHANGED <<frame_size, canvas, fit_mode>>
    /\ UNCHANGED <<coreVars, cacheVars, overlayVars, taskVars, acceptVars, nameVars>>

NextResize == ResizeFrame

SpecResize == InitResize /\ [][NextResize]_vars

(* -------------------------- frame resize: claims ----------------------- *)
\* C22: for every fit mode and every source frame of at least 1x1, the frame
\* handed to the writer has exactly the canvas width and height; under cover
\* and zoom the scaled frame is at least canvas size in both dimensions
\* before the crop, under contain at most canvas size in both dimensions
\* before it is centered on black.
C22_FrameHasCanvasSize ==
    zpc # "fresh" =>
        /\ zpc = "written"
        /\ written = canvas
        /\ fit_mode \in {"cover", "zoom"} =>
              (scaled[1] >= canvas[1] /\ scaled[2] >= canvas[2])
        /\ fit_mode = "contain" =>
              (scaled[1] <= canvas[1] /\ scaled[2] <= canvas[2])

C22_Witness ==
    /\ zpc = "written"
    /\ fit_mode = "cover"
    /\ frame_size = <<5, 3>>
    /\ canvas = <<2, 4>>
    /\ scaled = <<7, 4>>
    /\ written = <<2, 4>>

(* ----------------------------- caption overlay ------------------------- *)
\* SpecOverlay is one call of overlay_text_on_frame, up to the rectangle of
\* the frame it blends the caption into.
MaxOverlaySide == 4
MaxBitmapSide == 4

\* frame sides, a 10 pixel side (where the margins are whole pixels) included
OverlaySides == (1..MaxOverlaySide) \cup {10}

\* caption bitmap sides: empty, smaller and larger than a frame
BitmapSides == (0..MaxBitmapSide) \cup {12}

Positions == {"center", "top", "bottom"}

\* margin_pct values in [0, 0.5]: 0, the default 0.16, 0.3, 0.5
Margins == {<<0, 1>>, <<4, 25>>, <<3, 10>>, <<1, 2>>}

\* int(side * margin_pct)
MarginPx(side, m) == Floor(side * m[1], m[2])

\* max(1, int(side * scale)) with scale = min(fh / th, fw / tw) * 0.9
ScaledDown(side, fw, fh, tw, th) ==
    IF fh * tw <= fw * th
    THEN Max(1, Floor(side * fh * 9, th * 10))
    ELSE Max(1, Floor(side * fw * 9, tw * 10))

\* y before the clamp
AnchorY(pos, fh, th, margin_y) ==
    CASE pos = "center" -> (fh - th) \div 2
      [] pos = "bottom" -> fh - th - margin_y
      [] OTHER -> margin_y

ClampMutant(v, hi) == v

\* max(0, min(v, hi))
Clamp(v, hi) == Max(0, Min(v, hi))

InitOverlay ==
    /\ frame_shape \in OverlaySides \X OverlaySides
    /\ text_shape \in BitmapSides \X BitmapSides
    /\ position \in Positions
    /\ margin_pct \in Margins
    /\ blend = [at |-> <<0, 0>>, size |-> <<0, 0>>]
    /\ opc = "call"
    /\ CoreIdle
    /\ CacheIdle
    /\ ResizeIdle
    /\ TaskIdle
    /\ AcceptIdle
    /\ NameIdle

\* overlay_text_on_frame(frame, text_img, position, margin_pct)
OverlayText ==
    /\ opc = "call"
    /\ IF text_shape[1] = 0 \/ text_shape[2] = 0
       THEN \* text_img.size == 0: return frame
            /\ opc' = "skipped"
            /\ UNCHANGED blend
       ELSE \E fw \in {frame_shape[1]} : \E fh \in {frame_shape[2]} :
            \E big \in {text_shape[2] > fh \/ text_shape[1] > fw} :
            \E tw \in {IF big THEN ScaledDown(text_shape[1], fw, fh,
                                              text_shape[1], text_shape[2])
                       ELSE text_shape[1]} :
            \E th \in {IF big THEN ScaledDown(text_shape[2], fw, fh,
                                              text_shape[1], text_shape[2])
                       ELSE text_shape[2]} :
            \E x \in {(fw - tw) \div 2} :
            \E y \in {AnchorY(position, fh, th, MarginPx(fh, margin_pct))} :
               /\ blend' = [at |-> <<Clamp(x, fw - tw), Clamp(y, fh - th)>>,
                            size |-> <<tw, th>>]
               /\ opc' = "blended"
    /\ UNCHANGED <<frame_shape, text_shape, position, margin_pct>>
    /\ UNCHANGED <<coreVars, cacheVars, resizeVars, taskVars, acceptVars, nameVars>>

NextOverlay == OverlayText

SpecOverlay == InitOverlay /\ [][NextOverlay]_vars

(* ------------------------- caption overlay: claims --------------------- *)
\* the blended rectangle lies inside the frame
InsideFrame ==
    /\ 0 <= blend.at[1] /\ blend.at[1] + blend.size[1] <= frame_shape[1]
    /\ 0 <= blend.at[2] /\ blend.at[2] + blend.size[2] <= frame_shape[2]

\* the bitmap as passed in is no larger than the frame
BitmapFits ==
    text_shape[1] <= frame_shape[1] /\ text_shape[2] <= frame_shape[2]

\* the y the position asks for, with margin = int(margin_pct * height)
WantedY ==
    CASE position = "center" -> (frame_shape[2] - text_shape[2]) \div 2
      [] position = "top" -> MarginPx(frame_shape[2], margin_pct)
      [] OTHER -> frame_shape[2] - MarginPx(frame_shape[2], margin_pct)
                      - text_shape[2]

\* C23: for every frame size, caption bitmap size, position and margin_pct
\* in [0, 0.5] the rectangle where the caption is blended lies inside the
\* frame; when the bitmap fits it is horizontally centered and placed
\* vertically at the center, at margin_pct * height from the top, or ending
\* margin_pct * height above the bottom.
C23_InsideAndAnchored ==
    opc = "blended" =>
        /\ InsideFrame
        /\ BitmapFits =>
              /\ blend.at[1] = (frame_shape[1] - text_shape[1]) \div 2
              /\ blend.at[2] = WantedY

\* C23, as the code has it: the rectangle lies inside the frame; a bitmap
\* that fits is horizontally centered, and is at the vertical place its
\* position asks for when bitmap and margin fit the height together
\* (text height + int(margin_pct * height) <= height); a bitmap that fits
\* without the margin only is pushed to the far edge of the frame instead
\* (top: it ends at the bottom edge, bottom: it starts at the top edge).
C23_InsideAndAnchoredIfRoom ==
    opc = "blended" =>
        /\ InsideFrame
        /\ BitmapFits =>
              /\ blend.size = text_shape
              /\ blend.at[1] = (frame_shape[1] - text_shape[1]) \div 2
              /\ blend.at[2] =
                    IF position = "center"
                       \/ text_shape[2] + MarginPx(frame_shape[2], margin_pct)
                              <= frame_shape[2]
                    THEN WantedY
                    ELSE IF position = "top"
                    THEN frame_shape[2] - text_shape[2]
                    ELSE 0

C23_Witness ==
    /\ opc = "blended"
    /\ frame_shape = <<10, 10>>
    /\ text_shape = <<4, 3>>
    /\ position = "bottom"
    /\ margin_pct = <<3, 10>>
    /\ blend = [at |-> <<3, 4>>, size |-> <<4, 3>>]

(* ------------------------ concurrent background tasks ------------------ *)
\* SpecTasks is two background tasks (process_single_video or
\* process_batch_videos) alive at the same time, each running its render
\* jobs one after another inside its own TemporaryDirectory.
MaxTaskJobs == 2

\* the two background tasks alive at the same time
Tasks == {1, 2}

\* directory names mkdtemp can draw from
TempDirNames == 1..(Cardinality(Tasks) + 1)

\* identities an object can be allocated at
ObjectIds == 1..(Cardinality(Tasks) + 1)

\* output file names as <<stem, suffix>>; two tasks can be given the same one
OutputNames == {<<"out", ".mp4">>, <<"out", ".mov">>, <<"clip", ".mp4">>}

\* Path.with_suffix(suffix) on a name <<stem, suffix>>
WithSuffix(name, suffix) == <<name[1], suffix>>

\* the directories that exist
LiveDirs == {temp_dir[k] : k \in Tasks} \ {0}

\* the renderer objects that are referenced
LiveRenderers == {renderer[k] : k \in Tasks} \ {0}

\* one directory shared by every task
MkDTempMutant(existing) == {1}

\* tempfile.TemporaryDirectory(): a directory that did not exist
MkDTemp(existing) == TempDirNames \ existing

\* EmojiTextRenderer(...): a new object with a new _render_cache dict
NewRenderer(live) == ObjectIds \ live

InitTasks ==
    /\ tpc = [k \in Tasks |-> "idle"]
    /\ temp_dir = [k \in Tasks |-> 0]
    /\ temp_output = [k \in Tasks |-> <<"", "">>]
    /\ jobs_left = [k \in Tasks |-> 0]
    /\ temp_files = [k \in Tasks |-> {}]
    /\ renderer = [k \in Tasks |-> 0]
    /\ CoreIdle
    /\ CacheIdle
    /\ ResizeIdle
    /\ OverlayIdle
    /\ AcceptIdle
    /\ NameIdle

TaskKeep ==
    UNCHANGED <<coreVars, cacheVars, resizeVars, overlayVars, acceptVars,
               nameVars>>

\* the background task is started: a single run has one render job, a
\* batch run has one per planned job
TaskStart(k) ==
    /\ tpc[k] = "idle"
    /\ \E n \in 1..MaxTaskJobs : jobs_left' = [jobs_left EXCEPT ![k] = n]
    /\ tpc' = [tpc EXCEPT ![k] = "started"]
    /\ UNCHANGED <<temp_dir, temp_output, temp_files, renderer>>
    /\ TaskKeep

\* "with tempfile.TemporaryDirectory() as temp_dir"
EnterTempDir(k) ==
    /\ tpc[k] = "started"
    /\ \E d \in MkDTemp(LiveDirs) : temp_dir' = [temp_dir EXCEPT ![k] = d]
    /\ tpc' = [tpc EXCEPT ![k] = "job"]
    /\ UNCHANGED <<temp_output, jobs_left, temp_files, renderer>>
    /\ TaskKeep

\* "temp_output = temp_base / ..." and the call of process_video
CallProcessVideo(k) ==
    /\ tpc[k] = "job"
    /\ jobs_left[k] > 0
    /\ \E name \in OutputNames : temp_output' = [temp_output EXCEPT ![k] = name]
    /\ temp_files' = [temp_files EXCEPT ![k] = {}]
    /\ tpc' = [tpc EXCEPT ![k] = "writer"]
    /\ UNCHANGED <<temp_dir, jobs_left, renderer>>
    /\ TaskKeep

\* "temp_video = output_path.with_suffix('.temp.mp4')" and the VideoWriter
\* opened on it
TaskOpenWriter(k) ==
    /\ tpc[k] = "writer"
    /\ temp_files' = [temp_files EXCEPT ![k] =
          @ \cup {<<temp_dir[k], WithSuffix(temp_output[k], ".temp.mp4")>>}]
    /\ tpc' = [tpc EXCEPT ![k] = "renderer"]
    /\ UNCHANGED <<temp_dir, temp_output, jobs_left, renderer>>
    /\ TaskKeep

\* "renderer = EmojiTextRenderer(...)"
TaskInitRenderer(k) ==
    /\ tpc[k] = "renderer"
    /\ \E r \in NewRenderer(LiveRenderers) :
          renderer' = [renderer EXCEPT ![k] = r]
    /\ tpc' = [tpc EXCEPT ![k] = "frames"]
    /\ UNCHANGED <<temp_dir, temp_output, jobs_left, temp_files>>
    /\ TaskKeep

\* the frame loop, then either the mux, which writes
\* output_path.parent / "temp-audio.m4a", or the move of the temp video
TaskFrames(k) ==
    /\ tpc[k] = "frames"
    /\ \/ /\ temp_files' = [temp_files EXCEPT ![k] =
                @ \cup {<<temp_dir[k], <<"temp-audio", ".m4a">>>>}]
          /\ tpc' = [tpc EXCEPT ![k] = "mux"]
       \/ /\ tpc' = [tpc EXCEPT ![k] = "mux"]
          /\ UNCHANGED temp_files
    /\ UNCHANGED <<temp_dir, temp_output, jobs_left, renderer>>
    /\ TaskKeep

\* process_video returns: its renderer is dropped; the task goes on to its
\* next job or leaves the with-block
TaskReturn(k) ==
    /\ tpc[k] = "mux"
    /\ renderer' = [renderer EXCEPT ![k] = 0]
    /\ jobs_left' = [jobs_left EXCEPT ![k] = @ - 1]
    /\ tpc' = [tpc EXCEPT ![k] = IF jobs_left[k] > 1 THEN "job" ELSE "exit"]
    /\ UNCHANGED <<temp_dir, temp_output, temp_files>>
    /\ TaskKeep

\* the with-block ends: the directory and everything in it is removed
ExitTempDir(k) ==
    /\ tpc[k] = "exit"
    /\ temp_dir' = [temp_dir EXCEPT ![k] = 0]
    /\ temp_files' = [temp_files EXCEPT ![k] = {}]
    /\ temp_output' = [temp_output EXCEPT ![k] = <<"", "">>]
    /\ tpc' = [tpc EXCEPT ![k] = "idle"]
    /\ UNCHANGED <<jobs_left, renderer>>
    /\ TaskKeep

NextTasks ==
    \E k \in Tasks :
        \/ TaskStart(k)
        \/ EnterTempDir(k)
        \/ CallProcessVideo(k)
        \/ TaskOpenWriter(k)
        \/ TaskInitRenderer(k)
        \/ TaskFrames(k)
        \/ TaskReturn(k)
        \/ ExitTempDir(k)

SpecTasks == InitTasks /\ [][NextTasks]_vars

(* -------------------- concurrent background tasks: claims -------------- *)
\* task k is inside process_video
Rendering(k) == tpc[k] \in {"writer", "renderer", "frames", "mux"}

\* C25: two render jobs that execute at the same time write their temporary
\* files (the '.temp.mp4' video and 'temp-audio.m4a') at distinct paths and
\* do not share a text renderer or its cache.
C25_ConcurrentJobsDisjoint ==
    \A k, u \in Tasks :
        k # u /\ Rendering(k) /\ Rendering(u) =>
            /\ temp_files[k] \cap temp_files[u] = {}
            /\ renderer[k] # 0 => renderer[k] # renderer[u]

\* two jobs with the same output name, both past the mux
C25_Witness ==
    /\ tpc[1] = "mux"
    /\ tpc[2] = "mux"
    /\ temp_output[1] = temp_output[2]
    /\ Cardinality(temp_files[1]) = 2
    /\ Cardinality(temp_files[2]) = 2
    /\ renderer[1] # 0
    /\ renderer[2] # 0

(* --------------------------- accepting a batch ------------------------- *)
\* SpecAccept is one POST /process-batch: the route lists the folders,
\* computes total_jobs, queues the background task and answers; the
\* background task then plans its jobs.
ListVideosParams == <<"folder_path", "user_id">>

\* parameters of ProcessingService.process_batch_videos after self; the
\* last three have defaults
BatchRunParams ==
    <<"job_id", "user_id", "video_folder", "audio_folder",
      "text_combinations", "output_folder", "project_name", "unique_mode",
      "unique_amount", "config">>

BatchRunDefaults == 3

\* parameters of process_batch_jobs_bg
ArchiveRunParams == <<"job_id", "batch_req">>

\* Python binding positional arguments to parameters: TypeError when a
\* parameter without default gets none or there are too many arguments
Bind(params, defaults, args) ==
    IF Len(args) < Len(params) - defaults \/ Len(args) > Len(params)
    THEN [raised |-> TRUE, bound |-> << >>]
    ELSE [raised |-> FALSE,
          bound |-> [p \in {params[i] : i \in 1..Len(args)} |->
                        args[CHOOSE i \in 1..Len(args) : params[i] = p]]]

\* the videos the listing finds in a folder of the request
ListVideos(folder) ==
    IF folder = "videos" THEN [i \in 1..request.videos |-> VideoKey(i)]
    ELSE << >>

\* the audios the listing finds in a folder of the request
ListAudios(folder) ==
    IF folder = "music" THEN [i \in 1..request.audios |-> AudioKey(i)]
    ELSE << >>

\* total as the routes compute it from the counts
AnnouncedTotal(v, a, rows_count, mode, amount) ==
    IF mode /\ amount # 0
    THEN Min(amount, v * rows_count * Max(1, a))
    ELSE v * rows_count * Max(1, a)

InitAccept ==
    /\ api \in {"current", "archive"}
    /\ \E v \in 0..MaxBatchVideos, a \in 0..MaxBatchAudios,
          c \in 0..MaxBatchRows, mode \in BOOLEAN, amount \in 0..MaxAmount,
          folder \in {"", "music"} :
          /\ (folder = "" => a = 0)
          /\ request = [video_folder |-> "videos", audio_folder |-> folder,
                        text_combinations |-> [i \in 1..c |-> CaptionRow(i)],
                        output_folder |-> "out", unique_mode |-> mode,
                        unique_amount |-> amount, config |-> "config",
                        videos |-> v, audios |-> a]
    /\ apc = "request"
    /\ response = << >>
    /\ queued = << >>
    /\ planned = << >>
    /\ CoreIdle
    /\ CacheIdle
    /\ ResizeIdle
    /\ OverlayIdle
    /\ TaskIdle
    /\ NameIdle

AcceptKeep ==
    UNCHANGED <<coreVars, cacheVars, resizeVars, overlayVars, taskVars,
                nameVars>>

\* routers/processing.py process_batch_videos: the listing is called with
\* the folder only; a call that raises is answered with a server error
RouterAccept ==
    /\ api = "current"
    /\ apc = "request"
    /\ \E call \in {Bind(ListVideosParams, 0, <<request.video_folder>>)} :
          IF call.raised
          THEN /\ response' = [kind |-> "error", total_jobs |-> 0]
               /\ queued' = << >>
               /\ apc' = "done"
          ELSE \E v \in {Len(ListVideos(call.bound["folder_path"]))} :
               \E a \in {IF request.audio_folder # ""
                         THEN Len(ListAudios(request.audio_folder)) ELSE 0} :
               \E rows_count \in {IF request.text_combinations # << >>
                                  THEN Len(request.text_combinations)
                                  ELSE 1} :
                  IF v = 0
                  THEN /\ response' = [kind |-> "rejected", total_jobs |-> 0]
                       /\ queued' = << >>
                       /\ apc' = "done"
                  ELSE /\ response' =
                             [kind |-> "accepted",
                              total_jobs |->
                                  AnnouncedTotal(v, a, rows_count,
                                                 request.unique_mode,
                                                 request.unique_amount)]
                       /\ queued' = <<"job_id", request.video_folder,
                                      request.audio_folder,
                                      request.text_combinations,
                                      request.output_folder,
                                      request.unique_mode,
                                      request.unique_amount, request.config>>
                       /\ apc' = "queued"
    /\ UNCHANGED <<api, request, planned>>
    /\ AcceptKeep

\* _archive_old api_process_batch
ArchiveAccept ==
    /\ api = "archive"
    /\ apc = "request"
    /\ \E v \in {Len(ListVideos(request.video_folder))} :
       \E a \in {IF request.audio_folder # ""
                 THEN Len(ListAudios(request.audio_folder)) ELSE 0} :
       \E rows \in {RowsUsed(request.text_combinations)} :
          IF v = 0
          THEN /\ response' = [kind |-> "rejected", total_jobs |-> 0]
               /\ queued' = << >>
               /\ apc' = "done"
          ELSE /\ response' =
                     [kind |-> "accepted",
                      total_jobs |-> AnnouncedTotal(v, a, Len(rows),
                                                    request.unique_mode,
                                                    request.unique_amount)]
               /\ queued' = <<"job_id", request>>
               /\ apc' = "queued"
    /\ UNCHANGED <<api, request, planned>>
    /\ AcceptKeep

\* the background task starts and plans its jobs from its arguments
BackgroundPlan ==
    /\ apc = "queued"
    /\ \E call \in {IF api = "archive"
                    THEN Bind(ArchiveRunParams, 0, queued)
                    ELSE Bind(BatchRunParams, BatchRunDefaults, queued)} :
       \E args \in {IF api = "archive" THEN call.bound["batch_req"]
                    ELSE call.bound} :
       \E vs \in {ListVideos(args["video_folder"])} :
       \E as \in {IF args["audio_folder"] # ""
                  THEN ListAudios(args["audio_folder"]) ELSE << >>} :
          planned' = <<Len(PlannedJobs(vs, as,
                                       RowsUsed(args["text_combinations"]),
                                       args["unique_mode"],
                                       args["unique_amount"]))>>
    /\ apc' = "done"
    /\ UNCHANGED <<api, request, response, queued>>
    /\ AcceptKeep

NextAccept == RouterAccept \/ ArchiveAccept \/ BackgroundPlan

SpecAccept == InitAccept /\ [][NextAccept]_vars

FirstWordsLen == 20
SafeLen == 50

\* file names the video listing can return: it keeps every key whose suffix
\* is a video extension
ListedVideos ==
    {[stem |-> st, suffix |-> sx] :
        st \in {<<"a">>, <<"a", "_", "b">>}, sx \in {".mp4", ".mov"}}

\* file names the audio listing can return
ListedAudios ==
    {[stem |-> st, suffix |-> sx] :
        st \in {<<"c">>, <<"b", "_", "c">>}, sx \in {".mp3", ".wav"}}

NoAudio == [stem |-> << >>, suffix |-> ""]

\* first segments of caption combinations
SegmentTexts == {<<"h", "i">>, <<"h", "i", "!">>, <<"h", "-">>}

\* Path(key).stem
Stem(file) == file.stem

\* s[:n]
Take(s, n) == SubSeq(s, 1, Min(Len(s), n))

\* \w of the regular expressions, on the characters used here
IsWord(ch) == ch \in {"a", "b", "c", "h", "i", "m", "o", "_"} \/ ch \in
    {DigitChar(d) : d \in 0..9}

\* _first_words(text): re.sub(r"[^\w\s]", "", text).strip()[:n] if text
\* else "text"
FirstWords(text) ==
    IF text = << >> THEN <<"t", "e", "x", "t">>
    ELSE Take(SelectSeq(text, IsWord), FirstWordsLen)

\* re.sub(r"[^\w\-_]", "_", s)[:50]
SafeBase(str) ==
    Take([i \in 1..Len(str) |->
             IF IsWord(str[i]) \/ str[i] = "-" THEN str[i] ELSE "_"], SafeLen)

\* f"{video_stem}_{abase}__{safe_tbase}.mp4" for the job (vpath, apath, idx)
FileName(job, texts) ==
    \* abase = Path(apath_s3).stem if apath_s3 else "noaudio"
    LET abase == IF job.audio # NoAudio THEN Stem(job.audio)
                 ELSE <<"n", "o", "a", "u", "d", "i", "o">>
        cap_key == FirstWords(texts[job.idx + 1])
        safe_tbase == SafeBase(<<"c", "o", "m", "b", "o">>
                               \o Digits(job.idx + 1) \o <<"_">> \o cap_key)
    IN Stem(job.video) \o <<"_">> \o abase \o <<"_", "_">> \o safe_tbase
       \o <<".mp4">>

InitNames ==
    /\ \E c \in 1..MaxBatchRows :
          /\ row_text \in [1..c -> SegmentTexts]
          /\ pair \in [1..2 -> [video : ListedVideos,
                                audio : ListedAudios \cup {NoAudio},
                                idx : 0..(c - 1)]]
    \* a run has audios for every job or for none
    /\ (pair[1].audio = NoAudio) <=> (pair[2].audio = NoAudio)
    /\ filename = << >>
    /\ fpc = "jobs"
    /\ CoreIdle
    /\ CacheIdle
    /\ ResizeIdle
    /\ OverlayIdle
    /\ TaskIdle
    /\ AcceptIdle

\* the loop of process_batch_videos names the output of each job
NameOutputs ==
    /\ fpc = "jobs"
    /\ filename' = [j \in 1..2 |-> FileName(pair[j], row_text)]
    /\ fpc' = "named"
    /\ UNCHANGED <<pair, row_text>>
    /\ UNCHANGED <<coreVars, cacheVars, resizeVars, overlayVars, taskVars,
                   acceptVars>>

NextNames == NameOutputs

SpecNames == InitNames /\ [][NextNames]_vars

(* ----------------------- output file names: claims --------------------- *)
\* C30: within one batch run two planned jobs that differ in video, in
\* audio or in caption-combination index get different output file names,
\* for all video and audio file names the listing can return.
C30_DistinctFileNames ==
    (fpc = "named"
     /\ \/ pair[1].video # pair[2].video
        \/ pair[1].audio # pair[2].audio
        \/ pair[1].idx # pair[2].idx)
    => filename[1] # filename[2]

====
